---- MODULE Spec2Model ----
(***************************************************************************)
(* A model of the minotor RAPTOR router: the columnar Route store, the     *)
(* Timetable lookups, Router.route() with its route scans, in-seat         *)
(* continuation scans and transfer relaxation, and Result.bestRoute().     *)
(***************************************************************************)
EXTENDS Integers, Sequences, FiniteSets, TLC

(* ------------------------------------------------------------------ *)
(* Bounds of the model                                                  *)
(* ------------------------------------------------------------------ *)

\* Stop ids are 0 .. NumStops-1.
NumStops == 4

\* query.options.maxTransfers ranges over 0 .. MaxMaxTransfers.
MaxMaxTransfers == 1

\* query.departureTime ranges over 0 .. MaxDepartureTime.
MaxDepartureTime == 1

(* ------------------------------------------------------------------ *)
(* Program constants                                                    *)
(* ------------------------------------------------------------------ *)

REGULAR == 0
NOT_AVAILABLE == 1
MUST_PHONE_AGENCY == 2
MUST_COORDINATE_WITH_DRIVER == 3

\* Time.infinity(): later than every real time of the model.
UNREACHED == 9999

\* The value of an absent optional (undefined) number.
Undefined == -1

Stops == 0 .. (NumStops - 1)

Min(a, b) == IF a < b THEN a ELSE b

Max(a, b) == IF a > b THEN a ELSE b

\* The elements of a sequence.
Range(s) == {s[i] : i \in 1 .. Len(s)}

\* Array.prototype.includes
Includes(s, x) == \E i \in 1 .. Len(s) : s[i] = x

\* Set.add on an insertion-ordered Set: a new member goes last.
SetAdd(s, x) == IF Includes(s, x) THEN s ELSE Append(s, x)

RECURSIVE SetAddAll(_, _)
SetAddAll(s, xs) ==
    IF xs = <<>> THEN s ELSE SetAddAll(SetAdd(s, Head(xs)), Tail(xs))

RECURSIVE BitOr(_, _)
\* The bitwise or of two non-negative integers.
BitOr(a, b) ==
    IF a = 0 THEN b
    ELSE IF b = 0 THEN a
    ELSE (IF (a % 2 = 1) \/ (b % 2 = 1) THEN 1 ELSE 0)
         + 2 * BitOr(a \div 2, b \div 2)

(* ------------------------------------------------------------------ *)
(* Route: construction from a builder                                   *)
(* ------------------------------------------------------------------ *)

pickUpDropOffTypeMap ==
    <<"REGULAR", "NOT_AVAILABLE", "MUST_PHONE_AGENCY",
      "MUST_COORDINATE_WITH_DRIVER">>

toPickupDropOffType(numericalType) == pickUpDropOffTypeMap[numericalType + 1]

RECURSIVE EncodeFrom(_, _, _, _)
\* The loop of encodePickUpDropOffTypes from entry i (0-based) on; encoded is
\* the byte array so far (a Uint8Array: each store is taken modulo 256).
EncodeFrom(pickUpTypes, dropOffTypes, i, encoded) ==
    IF i >= Len(pickUpTypes) THEN encoded
    ELSE LET byteIndex == i \div 2
             isSecondPair == (i % 2 = 1)
             dropOffType == dropOffTypes[i + 1]
             pickUpType == pickUpTypes[i + 1]
             currentByte == encoded[byteIndex + 1]
             newByte ==
                 IF isSecondPair
                 THEN BitOr(BitOr(currentByte, dropOffType * 16), pickUpType * 64)
                 ELSE BitOr(BitOr(currentByte, dropOffType), pickUpType * 4)
         IN  EncodeFrom(pickUpTypes, dropOffTypes, i + 1,
                        [encoded EXCEPT ![byteIndex + 1] = newByte % 256])

\* A packing that stores each type in the field of the other one.
encodePickUpDropOffTypesSwapped(pickUpTypes, dropOffTypes) ==
    EncodeFrom(dropOffTypes, pickUpTypes, 0, [b \in 1 .. (Len(pickUpTypes) + 1) \div 2 |-> 0])

encodePickUpDropOffTypes(pickUpTypes, dropOffTypes) ==
    LET stopsCount == Len(pickUpTypes)
        arraySize == (stopsCount + 1) \div 2
    IN  EncodeFrom(pickUpTypes, dropOffTypes, 0, [b \in 1 .. arraySize |-> 0])

RECURSIVE InsertSorted(_, _)
\* One step of a stable insertion sort by firstDeparture.
InsertSorted(sorted, trip) ==
    IF sorted = <<>> THEN <<trip>>
    ELSE IF trip.firstDeparture < Head(sorted).firstDeparture
         THEN <<trip>> \o sorted
         ELSE <<Head(sorted)>> \o InsertSorted(Tail(sorted), trip)

RECURSIVE SortTrips(_)
\* builder.trips.sort((a, b) => a.firstDeparture - b.firstDeparture): stable.
SortTrips(trips) ==
    IF trips = <<>> THEN <<>>
    ELSE InsertSorted(SortTrips(SubSeq(trips, 1, Len(trips) - 1)),
                      trips[Len(trips)])

RECURSIVE Flatten(_)
Flatten(seqs) == IF seqs = <<>> THEN <<>> ELSE Head(seqs) \o Flatten(Tail(seqs))

\* A builder is [serviceRouteId, stops, trips], a trip being
\* [firstDeparture, arrivalTimes, departureTimes, pickUpTypes, dropOffTypes].
finalizeRouteFromBuilder(builder) ==
    LET trips == SortTrips(builder.trips)
        stopsCount == Len(builder.stops)
        tripTimes(trip) ==
            Flatten([i \in 1 .. stopsCount |->
                        <<trip.arrivalTimes[i], trip.departureTimes[i]>>])
        allPickUpTypes == Flatten([t \in 1 .. Len(trips) |-> trips[t].pickUpTypes])
        allDropOffTypes == Flatten([t \in 1 .. Len(trips) |-> trips[t].dropOffTypes])
    IN  [serviceRouteId |-> builder.serviceRouteId,
         stops |-> builder.stops,
         stopTimes |-> Flatten([t \in 1 .. Len(trips) |-> tripTimes(trips[t])]),
         pickUpDropOffTypes |->
             encodePickUpDropOffTypes(allPickUpTypes, allDropOffTypes)]

(* ------------------------------------------------------------------ *)
(* Route: accessors                                                     *)
(* ------------------------------------------------------------------ *)

getNbStops(route) == Len(route.stops)

\* this.nbTrips = stopTimes.length / (stops.length * 2)
nbTrips(route) ==
    IF Len(route.stops) = 0 THEN 0
    ELSE Len(route.stopTimes) \div (Len(route.stops) * 2)

\* route.stops[stopIndex]
stopId(route, stopIndex) == route.stops[stopIndex + 1]

\* Route.stopIndex: the position of a stop in the route (the routes of the
\* model visit a stop at most once).
stopIndex(route, stop) ==
    CHOOSE i \in 0 .. (Len(route.stops) - 1) : route.stops[i + 1] = stop

\* Route.isBefore
isBefore(route, stopA, stopB) == stopIndex(route, stopA) < stopIndex(route, stopB)

\* The result of a call that throws an Error instead of returning.
Throws == -2

\* Throws when the stop time is undefined.
arrivalAt(route, stopIdx, tripIndex) ==
    LET arrivalIndex == (tripIndex * Len(route.stops) + stopIdx) * 2
    IN  IF arrivalIndex + 1 \notin DOMAIN route.stopTimes THEN Throws
        ELSE route.stopTimes[arrivalIndex + 1]

departureFrom(route, stopIdx, tripIndex) ==
    LET departureIndex == (tripIndex * Len(route.stops) + stopIdx) * 2 + 1
    IN  IF departureIndex + 1 \notin DOMAIN route.stopTimes THEN Throws
        ELSE route.stopTimes[departureIndex + 1]

\* "Error" when the byte is undefined and the accessor throws.
pickUpTypeFrom(route, stopIdx, tripIndex) ==
    LET globalIndex == tripIndex * Len(route.stops) + stopIdx
        byteIndex == globalIndex \div 2
        isSecondPair == (globalIndex % 2 = 1)
        byte == route.pickUpDropOffTypes[byteIndex + 1]
        pickUpValue == IF isSecondPair THEN (byte \div 64) % 4
                                       ELSE (byte \div 4) % 4
    IN  IF byteIndex + 1 \notin DOMAIN route.pickUpDropOffTypes THEN "Error"
        ELSE toPickupDropOffType(pickUpValue)

dropOffTypeAt(route, stopIdx, tripIndex) ==
    LET globalIndex == tripIndex * Len(route.stops) + stopIdx
        byteIndex == globalIndex \div 2
        isSecondPair == (globalIndex % 2 = 1)
        byte == route.pickUpDropOffTypes[byteIndex + 1]
        dropOffValue == IF isSecondPair THEN (byte \div 16) % 4
                                        ELSE byte % 4
    IN  IF byteIndex + 1 \notin DOMAIN route.pickUpDropOffTypes THEN "Error"
        ELSE toPickupDropOffType(dropOffValue)

RECURSIVE LowerBound(_, _, _, _, _, _)
\* The binary search of findEarliestTrip: the loop while (lo <= hi).
LowerBound(route, stopIdx, after, lo, hi, lb) ==
    IF lo > hi THEN lb
    ELSE LET mid == (lo + hi) \div 2
             depMid == departureFrom(route, stopIdx, mid)
         IN  IF depMid < after
             THEN LowerBound(route, stopIdx, after, mid + 1, hi, lb)
             ELSE LowerBound(route, stopIdx, after, lo, mid - 1, mid)

RECURSIVE FirstWithPickUp(_, _, _, _)
\* The forward scan of findEarliestTrip: for (t = lb; t < limit; t++).
FirstWithPickUp(route, stopIdx, t, limit) ==
    IF t >= limit THEN Undefined
    ELSE IF pickUpTypeFrom(route, stopIdx, t) = "Error" THEN Throws
    ELSE IF pickUpTypeFrom(route, stopIdx, t) # "NOT_AVAILABLE" THEN t
    ELSE FirstWithPickUp(route, stopIdx, t + 1, limit)

\* beforeTrip = Undefined when the argument is not given.
findEarliestTrip(route, stopIdx, after, beforeTrip) ==
    IF nbTrips(route) <= 0 THEN Undefined
    ELSE LET hi == IF beforeTrip # Undefined
                   THEN Min(nbTrips(route) - 1, beforeTrip - 1)
                   ELSE nbTrips(route) - 1
         IN  IF hi < 0 THEN Undefined
             ELSE LET lb == LowerBound(route, stopIdx, after, 0, hi, -1)
                  IN  IF lb = -1 THEN Undefined
                      ELSE FirstWithPickUp(route, stopIdx, lb,
                               IF beforeTrip # Undefined THEN beforeTrip
                                                         ELSE nbTrips(route))

(* ------------------------------------------------------------------ *)
(* Timetable                                                            *)
(* ------------------------------------------------------------------ *)

ALL_TRANSPORT_MODES ==
    {"TRAM", "SUBWAY", "RAIL", "BUS", "FERRY", "CABLE_TRAM", "AERIAL_LIFT",
     "FUNICULAR", "TROLLEYBUS", "MONORAIL"}

\* this.routesAdjacency[routeId]; route ids are 0-based.
getRoute(timetable, routeId) == timetable.routesAdjacency[routeId + 1]

\* stop.stopTransfers of the stop's adjacency, or the empty list.
getTransfers(timetable, stop) ==
    IF stop + 1 \in DOMAIN timetable.stopsAdjacency
    THEN timetable.stopsAdjacency[stop + 1].transfers
    ELSE <<>>

\* The boardings registered under the key (stopIndex, routeId, tripIndex).
getContinuousTrips(timetable, stopIdx, routeId, tripIndex) ==
    LET key == <<stopIdx, routeId, tripIndex>>
    IN  IF key \in DOMAIN timetable.tripContinuations
        THEN timetable.tripContinuations[key]
        ELSE <<>>

getServiceRouteInfo(timetable, route) ==
    timetable.serviceRoutes[route.serviceRouteId + 1]

\* The ids of the routes through a stop, in the order of the stop's adjacency.
routesPassingThrough(timetable, stop) ==
    IF stop + 1 \in DOMAIN timetable.stopsAdjacency
    THEN timetable.stopsAdjacency[stop + 1].routes
    ELSE <<>>

\* JavaScript truthiness of an optional number: undefined and 0 are falsy.
Truthy(x) == x # Undefined /\ x # 0

\* Map.get on an insertion-ordered Map kept as a sequence of [key, value].
MapGet(m, k) ==
    IF \E i \in 1 .. Len(m) : m[i].key = k
    THEN m[CHOOSE i \in 1 .. Len(m) : m[i].key = k].value
    ELSE Undefined

\* Map.set: an existing key keeps its position.
MapSet(m, k, v) ==
    IF \E i \in 1 .. Len(m) : m[i].key = k
    THEN [i \in 1 .. Len(m) |-> IF m[i].key = k THEN [key |-> k, value |-> v]
                                                ELSE m[i]]
    ELSE Append(m, [key |-> k, value |-> v])

\* The inner loop body of findReachableRoutes without the check of the
\* transport mode.
ReachOneOfAnyMode(timetable, transportModes, reachableRoutes, originStop, routeId) ==
    LET route == getRoute(timetable, routeId)
        hopOnStop == MapGet(reachableRoutes, routeId)
    IN  IF Truthy(hopOnStop)
        THEN IF isBefore(route, originStop, hopOnStop)
             THEN MapSet(reachableRoutes, routeId, originStop)
             ELSE reachableRoutes
        ELSE MapSet(reachableRoutes, routeId, originStop)

\* The body of the inner loop of findReachableRoutes for one route of one
\* origin stop.
ReachOne(timetable, transportModes, reachableRoutes, originStop, routeId) ==
    LET route == getRoute(timetable, routeId)
    IN  IF transportModes # {}
           /\ getServiceRouteInfo(timetable, route).type \notin transportModes
        THEN reachableRoutes
        ELSE LET hopOnStop == MapGet(reachableRoutes, routeId)
             IN  IF Truthy(hopOnStop)
                 THEN IF isBefore(route, originStop, hopOnStop)
                      THEN MapSet(reachableRoutes, routeId, originStop)
                      ELSE reachableRoutes
                 ELSE MapSet(reachableRoutes, routeId, originStop)

RECURSIVE ReachRoutes(_, _, _, _, _)
\* The inner loop of findReachableRoutes over the routes through originStop.
ReachRoutes(timetable, transportModes, reachableRoutes, originStop, routeIds) ==
    IF routeIds = <<>> THEN reachableRoutes
    ELSE ReachRoutes(timetable, transportModes,
                     ReachOne(timetable, transportModes, reachableRoutes,
                              originStop, Head(routeIds)),
                     originStop, Tail(routeIds))

RECURSIVE ReachStops(_, _, _, _)
\* The outer loop of findReachableRoutes over fromStops.
ReachStops(timetable, transportModes, reachableRoutes, fromStops) ==
    IF fromStops = <<>> THEN reachableRoutes
    ELSE ReachStops(timetable, transportModes,
                    ReachRoutes(timetable, transportModes, reachableRoutes,
                                Head(fromStops),
                                routesPassingThrough(timetable, Head(fromStops))),
                    Tail(fromStops))

\* A Map from route to hop-on stop, as a sequence of [key |-> routeId,
\* value |-> stop id].
findReachableRoutes(timetable, fromStops, transportModes) ==
    ReachStops(timetable, transportModes, <<>>, fromStops)

(* ------------------------------------------------------------------ *)
(* StopsIndex                                                           *)
(* ------------------------------------------------------------------ *)

\* Array.from(new Set(xs)): the first occurrence of each element, in order.
Dedupe(xs) == SetAddAll(<<>>, xs)

\* The stops equivalent to a source stop id: the stop itself, then its
\* siblings when it has a parent, else its children; none for an unknown id.
\* The source id of stop s is s.
equivalentStops(index, sourceId) ==
    IF sourceId \notin DOMAIN index THEN <<>>
    ELSE LET stop == index[sourceId]
             equivalents == IF stop.parent # Undefined
                            THEN index[stop.parent].children
                            ELSE stop.children
         IN  Dedupe(<<sourceId>> \o equivalents)

RECURSIVE FlatMapEquivalent(_, _)
FlatMapEquivalent(index, sourceIds) ==
    IF sourceIds = <<>> THEN <<>>
    ELSE equivalentStops(index, Head(sourceIds))
         \o FlatMapEquivalent(index, Tail(sourceIds))

(* ------------------------------------------------------------------ *)
(* Routing state                                                        *)
(* ------------------------------------------------------------------ *)

\* Map.get(stop) of a stop without an edge.
NoEdge ==
    [kind |-> "None", arrival |-> UNREACHED, from |-> Undefined,
     to |-> Undefined, routeId |-> Undefined, tripIndex |-> Undefined,
     continuationOf |-> <<>>, type |-> "", minTransferTime |-> Undefined]

OriginNode(arrival) == [NoEdge EXCEPT !.kind = "Origin", !.arrival = arrival]

\* continuationOf is <<>> when unset, else <<the previous edge>>.
VehicleEdge(arrival, routeId, tripIndex, from, to, continuationOf) ==
    [NoEdge EXCEPT !.kind = "Vehicle", !.arrival = arrival,
                   !.routeId = routeId, !.tripIndex = tripIndex,
                   !.from = from, !.to = to,
                   !.continuationOf = continuationOf]

TransferEdge(arrival, from, to, minTransferTime, type) ==
    [NoEdge EXCEPT !.kind = "Transfer", !.arrival = arrival, !.from = from,
                   !.to = to, !.minTransferTime = minTransferTime,
                   !.type = type]

\* 'routeId' in edge
IsVehicle(edge) == edge.kind = "Vehicle"

\* 'type' in edge
IsTransfer(edge) == edge.kind = "Transfer"

\* earliestArrivals.get(stop) of a stop without an entry.
NoArrival == [arrival |-> UNREACHED, legNumber |-> Undefined]

Arrival(arrival, legNumber) == [arrival |-> arrival, legNumber |-> legNumber]

\* new Map(): no stop has an edge.
EmptyEdges == [s \in Stops |-> NoEdge]

\* The scan has no active trip.
NoActiveTrip == [tripIndex |-> Undefined, hopOnStopIndex |-> Undefined]

\* The locals of scanRoute when no scan is running.
NoScan ==
    [routeId |-> Undefined, currentStopIndex |-> 0, activeTrip |-> NoActiveTrip,
     earliestArrivalAtAnyDestination |-> UNREACHED, newlyMarkedStops |-> <<>>,
     tripContinuation |-> <<>>]

\* The locals of considerTransfers at its start: i is the position in
\* markedStops, j the position in the stop's transfers (0: the stop has not
\* been looked at yet).
NoTransferLoop ==
    [i |-> 1, j |-> 0, currentArrival |-> NoEdge, newlyMarkedStops |-> <<>>]

\* No Result method has been called.
NoResult == [status |-> "none", to |-> Undefined, legs |-> <<>>]

\* Result.arrivalAt has not been called.
NoArrivalResult ==
    [status |-> "none", stop |-> Undefined, maxTransfers |-> Undefined,
     arrival |-> NoArrival]

\* No function of the timetable has been called on its own.
NoCall == [op |-> "none"]

\* No other query is in progress on the router.
NoSuspended == [mode |-> "none"]

VARIABLES
    timetable, stopsIndex, query,
    pc, round, earliestArrivals, graph, destinations, markedStops,
    reachableRoutes, routeCursor, scan,
    continuations, contCursor, stopsFromContinuations,
    xfer, roundEndTarget, result, arrivalResult, call, suspended

inputs == <<timetable, stopsIndex, query>>

routingState == <<earliestArrivals, graph, destinations>>

scanVars == <<reachableRoutes, routeCursor, scan>>

contVars == <<continuations, contCursor, stopsFromContinuations>>

vars ==
    <<timetable, stopsIndex, query, pc, round, earliestArrivals, graph,
      destinations, markedStops, reachableRoutes, routeCursor, scan,
      continuations, contCursor, stopsFromContinuations, xfer,
      roundEndTarget, result, arrivalResult, call, suspended>>

\* What the calls made on the model have returned.
outcomes == <<result, arrivalResult, call, suspended>>

RECURSIVE EarliestFrom(_, _, _)
\* The loop of earliestArrivalAtAnyStop.
EarliestFrom(arrivals, dests, acc) ==
    IF dests = <<>> THEN acc
    ELSE EarliestFrom(arrivals, Tail(dests),
                      Min(acc, arrivals[Head(dests)].arrival))

earliestArrivalAtAnyStop(arrivals, dests) == EarliestFrom(arrivals, dests, UNREACHED)

\* The edges of the round being computed.
edgesAtCurrentRound == graph[round + 1]

edgesAtPreviousRound == graph[round]

(* ------------------------------------------------------------------ *)
(* Router.route(): initialisation                                       *)
(* ------------------------------------------------------------------ *)

\* initRoutingState, then the marking of the keys of graph[0] in route().
InitRoutingState ==
    /\ pc = "start"
    /\ LET origins == equivalentStops(stopsIndex, query.from)
           initialState == Arrival(query.departureTime, 0)
       IN  /\ destinations' = FlatMapEquivalent(stopsIndex, query.to)
           /\ earliestArrivals' =
                  [s \in Stops |-> IF Includes(origins, s) THEN initialState
                                                            ELSE NoArrival]
           /\ graph' =
                  <<[s \in Stops |->
                        IF Includes(origins, s)
                        THEN OriginNode(query.departureTime)
                        ELSE NoEdge]>>
           /\ markedStops' = Dedupe(origins)
    /\ round' = 0
    /\ xfer' = NoTransferLoop
    /\ pc' = "transfers"
    /\ UNCHANGED <<inputs, scanVars, contVars, roundEndTarget, outcomes>>

(* ------------------------------------------------------------------ *)
(* Router.considerTransfers                                             *)
(* ------------------------------------------------------------------ *)

\* if (!currentArrival || 'type' in currentArrival) continue;
SkipsTransfers(currentArrival) ==
    currentArrival.kind = "None" \/ IsTransfer(currentArrival)

\* A dwell that is always the minTransferTime of the query options.
TransferTimeOfQuery(transfer, options) == options.minTransferTime

\* The dwell added to the source arrival. A set minTransferTime is a
\* Duration object: truthy also when it is zero.
TransferTime(transfer, options) ==
    IF transfer.minTransferTime # Undefined THEN transfer.minTransferTime
    ELSE IF transfer.type = "IN_SEAT" THEN 0
    ELSE options.minTransferTime

\* A relaxation that writes whatever the stored arrival is.
ImprovesByTransferAlways(arrivalAfterTransfer, originalArrival) == TRUE

\* A relaxation that also writes an arrival equal to the stored one.
ImprovesByTransferOrEqual(arrivalAfterTransfer, originalArrival) ==
    arrivalAfterTransfer <= originalArrival

\* arrivalAfterTransfer.isBefore(originalArrival)
ImprovesByTransfer(arrivalAfterTransfer, originalArrival) ==
    arrivalAfterTransfer < originalArrival

\* The top of the outer loop: the next marked stop is looked at.
TransferSource ==
    /\ pc = "transfers"
    /\ xfer.j = 0
    /\ xfer.i <= Len(markedStops)
    /\ LET stop == markedStops[xfer.i]
           currentArrival == edgesAtCurrentRound[stop]
       IN  xfer' = IF SkipsTransfers(currentArrival)
                      \/ getTransfers(timetable, stop) = <<>>
                   THEN [xfer EXCEPT !.i = @ + 1]
                   ELSE [xfer EXCEPT !.j = 1, !.currentArrival = currentArrival]
    /\ UNCHANGED <<inputs, pc, round, routingState, markedStops, scanVars,
                   contVars, roundEndTarget, outcomes>>

\* One iteration of the inner loop: one transfer of the current stop.
RelaxTransfer ==
    /\ pc = "transfers"
    /\ xfer.j >= 1
    /\ LET stop == markedStops[xfer.i]
           transfers == getTransfers(timetable, stop)
           transfer == transfers[xfer.j]
           transferTime == TransferTime(transfer, query.options)
           arrivalAfterTransfer == xfer.currentArrival.arrival + transferTime
           originalArrival == earliestArrivals[transfer.destination].arrival
           improves == ImprovesByTransfer(arrivalAfterTransfer, originalArrival)
           last == (xfer.j = Len(transfers))
       IN  /\ graph' =
                  IF improves
                  THEN [graph EXCEPT ![round + 1][transfer.destination] =
                           TransferEdge(arrivalAfterTransfer, stop,
                                        transfer.destination,
                                        transfer.minTransferTime, transfer.type)]
                  ELSE graph
           /\ earliestArrivals' =
                  IF improves
                  THEN [earliestArrivals EXCEPT ![transfer.destination] =
                           Arrival(arrivalAfterTransfer, round)]
                  ELSE earliestArrivals
           /\ xfer' =
                  [xfer EXCEPT
                     !.i = IF last THEN @ + 1 ELSE @,
                     !.j = IF last THEN 0 ELSE @ + 1,
                     !.newlyMarkedStops =
                         IF improves THEN SetAdd(@, transfer.destination) ELSE @]
    /\ UNCHANGED <<inputs, pc, round, destinations, markedStops, scanVars,
                   contVars, roundEndTarget, outcomes>>

\* considerTransfers returns; route() adds the newly marked stops. The round
\* (or the initialisation, for round 0) is over.
EndConsiderTransfers ==
    /\ pc = "transfers"
    /\ xfer.j = 0
    /\ xfer.i > Len(markedStops)
    /\ markedStops' = SetAddAll(markedStops, xfer.newlyMarkedStops)
    /\ roundEndTarget' =
           Append(roundEndTarget,
                  earliestArrivalAtAnyStop(earliestArrivals, destinations))
    /\ pc' = "roundEnd"
    /\ UNCHANGED <<inputs, round, routingState, scanVars, contVars, xfer,
                   outcomes>>

(* ------------------------------------------------------------------ *)
(* Router.route(): the round loop                                       *)
(* ------------------------------------------------------------------ *)

\* A round loop that runs one round more.
RoundAllowedOneMore(r, options) == r <= options.maxTransfers + 2

\* The loop condition round <= query.options.maxTransfers + 1.
RoundAllowed(r, options) == r <= options.maxTransfers + 1

\* A loop that goes on to round maxTransfers + 1 whatever is marked.
LoopContinuesWhileAllowed(r, marked, options) == RoundAllowed(r + 1, options)

\* Whether the loop goes on after the end of round r: round 0 is the
\* initialisation before the loop, a later round breaks when nothing is marked.
LoopContinues(r, marked, options) ==
    /\ RoundAllowed(r + 1, options)
    /\ IF r = 0 THEN TRUE ELSE Len(marked) # 0

\* The start of a round, up to the loop over the reachable routes.
BeginRound ==
    /\ pc = "roundEnd"
    /\ LoopContinues(round, markedStops, query.options)
    /\ round' = round + 1
    /\ graph' = Append(graph, EmptyEdges)
    /\ reachableRoutes' =
           findReachableRoutes(timetable, markedStops,
                               query.options.transportModes)
    /\ markedStops' = <<>>
    /\ routeCursor' = 1
    /\ pc' = "routes"
    /\ UNCHANGED <<inputs, earliestArrivals, destinations, scan, contVars,
                   xfer, roundEndTarget, outcomes>>

\* route() returns the Result.
Finish ==
    /\ pc = "roundEnd"
    /\ ~LoopContinues(round, markedStops, query.options)
    /\ pc' = "done"
    /\ UNCHANGED <<inputs, round, routingState, markedStops, scanVars,
                   contVars, xfer, roundEndTarget, outcomes>>

(* ------------------------------------------------------------------ *)
(* Router.scanRoute                                                     *)
(* ------------------------------------------------------------------ *)

\* An arrival update without local pruning.
ImprovesArrivalNoLocalPruning(dropOffType, arrivalTime, earliestAtStop, earliestAtAnyDestination) ==
    /\ dropOffType # "NOT_AVAILABLE"
    /\ arrivalTime < earliestAtAnyDestination

\* An arrival update that ignores the drop-off type.
ImprovesArrivalAnyDropOff(dropOffType, arrivalTime, earliestAtStop, earliestAtAnyDestination) ==
    /\ arrivalTime < earliestAtStop
    /\ arrivalTime < earliestAtAnyDestination

\* An arrival update without target pruning.
ImprovesArrivalNoTargetPruning(dropOffType, arrivalTime, earliestAtStop, earliestAtAnyDestination) ==
    /\ dropOffType # "NOT_AVAILABLE"
    /\ arrivalTime < earliestAtStop

\* An arrival update that also writes an arrival equal to the stored one.
ImprovesArrivalOrEqual(dropOffType, arrivalTime, earliestAtStop, earliestAtAnyDestination) ==
    /\ dropOffType # "NOT_AVAILABLE"
    /\ arrivalTime <= earliestAtStop
    /\ arrivalTime < earliestAtAnyDestination

\* The guard of the arrival update: drop-off allowed, local pruning, target
\* pruning.
ImprovesArrival(dropOffType, arrivalTime, earliestAtStop, earliestAtAnyDestination) ==
    /\ dropOffType # "NOT_AVAILABLE"
    /\ arrivalTime < earliestAtStop
    /\ arrivalTime < earliestAtAnyDestination

\* A boarding attempt that does not look at the departure of the active trip.
MayBoardWhateverTheActiveTrip(previousEdge, hasActiveTrip, activeDeparture) == previousEdge.kind # "None"

\* The guard of the boarding attempt; previousEdge is the edge of the stop in
\* the previous round, activeDeparture the departure of the active trip from
\* the stop (only read when there is an active trip).
MayBoard(previousEdge, hasActiveTrip, activeDeparture) ==
    /\ previousEdge.kind # "None"
    /\ IF hasActiveTrip THEN previousEdge.arrival <= activeDeparture ELSE TRUE

\* A scan that looks for an earlier trip also on a continuation.
ChecksEarlierTripsAlways(tripContinuation) == TRUE

\* if (tripContinuation) continue; the boarding attempt is left out on a
\* continuation.
ChecksEarlierTrips(tripContinuation) == tripContinuation = <<>>

\* The call of scanRoute for the next reachable route: the locals before the
\* loop over the stops.
StartScan ==
    /\ pc = "routes"
    /\ routeCursor <= Len(reachableRoutes)
    /\ LET entry == reachableRoutes[routeCursor]
           route == getRoute(timetable, entry.key)
       IN  scan' =
               [routeId |-> entry.key,
                currentStopIndex |-> stopIndex(route, entry.value),
                activeTrip |-> NoActiveTrip,
                earliestArrivalAtAnyDestination |->
                    earliestArrivalAtAnyStop(earliestArrivals, destinations),
                newlyMarkedStops |-> <<>>,
                tripContinuation |-> <<>>]
    /\ pc' = "scan"
    /\ UNCHANGED <<inputs, round, routingState, markedStops, reachableRoutes,
                   routeCursor, contVars, xfer, roundEndTarget, outcomes>>

\* One iteration of the loop over the stops of the scanned route: the arrival
\* update for the active trip, then the boarding attempt.
ScanStop ==
    /\ pc = "scan"
    /\ scan.currentStopIndex < getNbStops(getRoute(timetable, scan.routeId))
    /\ LET route == getRoute(timetable, scan.routeId)
           currentStopIndex == scan.currentStopIndex
           currentStop == stopId(route, currentStopIndex)
           activeTrip == scan.activeTrip
           hasActiveTrip == activeTrip.tripIndex # Undefined
           isContinuation == scan.tripContinuation # <<>>
           arrivalTime == arrivalAt(route, currentStopIndex, activeTrip.tripIndex)
           dropOffType ==
               dropOffTypeAt(route, currentStopIndex, activeTrip.tripIndex)
           improves ==
               IF hasActiveTrip
               THEN ImprovesArrival(dropOffType, arrivalTime,
                                    earliestArrivals[currentStop].arrival,
                                    scan.earliestArrivalAtAnyDestination)
               ELSE FALSE
           edge ==
               VehicleEdge(arrivalTime, scan.routeId, activeTrip.tripIndex,
                           activeTrip.hopOnStopIndex, currentStopIndex,
                           IF isContinuation
                           THEN <<scan.tripContinuation[1].previousEdge>>
                           ELSE <<>>)
           previousEdge == edgesAtPreviousRound[currentStop]
           tries ==
               IF ~ChecksEarlierTrips(scan.tripContinuation) THEN FALSE
               ELSE MayBoard(previousEdge, hasActiveTrip,
                             IF hasActiveTrip
                             THEN departureFrom(route, currentStopIndex,
                                                activeTrip.tripIndex)
                             ELSE Undefined)
           earliestTrip ==
               findEarliestTrip(route, currentStopIndex, previousEdge.arrival,
                                activeTrip.tripIndex)
           boards == IF tries THEN earliestTrip # Undefined ELSE FALSE
       IN  /\ graph' =
                  IF improves
                  THEN [graph EXCEPT ![round + 1][currentStop] = edge]
                  ELSE graph
           /\ earliestArrivals' =
                  IF improves
                  THEN [earliestArrivals EXCEPT ![currentStop] =
                           Arrival(arrivalTime, round)]
                  ELSE earliestArrivals
           /\ scan' =
                  [scan EXCEPT
                     !.currentStopIndex = @ + 1,
                     !.activeTrip =
                         IF boards
                         THEN [tripIndex |-> earliestTrip,
                               hopOnStopIndex |-> currentStopIndex]
                         ELSE @,
                     !.newlyMarkedStops =
                         IF improves THEN SetAdd(@, currentStop) ELSE @]
    /\ UNCHANGED <<inputs, pc, round, destinations, markedStops,
                   reachableRoutes, routeCursor, contVars, xfer,
                   roundEndTarget, outcomes>>

\* scanRoute returns to the loop over the reachable routes.
EndRouteScan ==
    /\ pc = "scan"
    /\ scan.tripContinuation = <<>>
    /\ scan.currentStopIndex >= getNbStops(getRoute(timetable, scan.routeId))
    /\ markedStops' = SetAddAll(markedStops, scan.newlyMarkedStops)
    /\ routeCursor' = routeCursor + 1
    /\ scan' = NoScan
    /\ pc' = "routes"
    /\ UNCHANGED <<inputs, round, routingState, reachableRoutes, contVars,
                   xfer, roundEndTarget, outcomes>>

(* ------------------------------------------------------------------ *)
(* In-seat trip continuations                                           *)
(* ------------------------------------------------------------------ *)

RECURSIVE ContinuationsOf(_, _)
\* The inner loop of findTripContinuations: the boardings of one edge.
ContinuationsOf(trips, arrival) ==
    IF trips = <<>> THEN <<>>
    ELSE <<[routeId |-> Head(trips).routeId,
            hopOnStopIndex |-> Head(trips).hopOnStopIndex,
            tripIndex |-> Head(trips).tripIndex,
            previousEdge |-> arrival]>>
         \o ContinuationsOf(Tail(trips), arrival)

RECURSIVE findTripContinuations(_, _)
findTripContinuations(stops, edges) ==
    IF stops = <<>> THEN <<>>
    ELSE LET arrival == edges[Head(stops)]
         IN  (IF ~IsVehicle(arrival) THEN <<>>
              ELSE ContinuationsOf(
                       getContinuousTrips(timetable, arrival.to,
                                          arrival.routeId, arrival.tripIndex),
                       arrival))
             \o findTripContinuations(Tail(stops), edges)

\* All reachable routes are scanned: the first findTripContinuations.
RoutesDone ==
    /\ pc = "routes"
    /\ routeCursor > Len(reachableRoutes)
    /\ continuations' = findTripContinuations(markedStops, edgesAtCurrentRound)
    /\ contCursor' = 1
    /\ stopsFromContinuations' = <<>>
    /\ pc' = "conts"
    /\ UNCHANGED <<inputs, round, routingState, markedStops, scanVars, xfer,
                   roundEndTarget, outcomes>>

\* The call of scanRoute for the next continuation of the batch.
StartContinuationScan ==
    /\ pc = "conts"
    /\ contCursor <= Len(continuations)
    /\ LET continuation == continuations[contCursor]
       IN  scan' =
               [routeId |-> continuation.routeId,
                currentStopIndex |-> continuation.hopOnStopIndex,
                activeTrip |-> [tripIndex |-> continuation.tripIndex,
                                hopOnStopIndex |-> continuation.hopOnStopIndex],
                earliestArrivalAtAnyDestination |->
                    earliestArrivalAtAnyStop(earliestArrivals, destinations),
                newlyMarkedStops |-> <<>>,
                tripContinuation |-> <<continuation>>]
    /\ pc' = "scan"
    /\ UNCHANGED <<inputs, round, routingState, markedStops, reachableRoutes,
                   routeCursor, contVars, xfer, roundEndTarget, outcomes>>

\* scanRoute returns to the loop over the continuations.
EndContinuationScan ==
    /\ pc = "scan"
    /\ scan.tripContinuation # <<>>
    /\ scan.currentStopIndex >= getNbStops(getRoute(timetable, scan.routeId))
    /\ stopsFromContinuations' =
           SetAddAll(stopsFromContinuations, scan.newlyMarkedStops)
    /\ contCursor' = contCursor + 1
    /\ scan' = NoScan
    /\ pc' = "conts"
    /\ UNCHANGED <<inputs, round, routingState, markedStops, reachableRoutes,
                   routeCursor, continuations, xfer, roundEndTarget, outcomes>>

\* The end of one pass of the while loop: the stops of the batch are marked
\* and examined for further continuations.
ContinuationBatchDone ==
    /\ pc = "conts"
    /\ Len(continuations) > 0
    /\ contCursor > Len(continuations)
    /\ markedStops' = SetAddAll(markedStops, stopsFromContinuations)
    /\ continuations' =
           findTripContinuations(stopsFromContinuations, edgesAtCurrentRound)
    /\ contCursor' = 1
    /\ stopsFromContinuations' = <<>>
    /\ UNCHANGED <<inputs, pc, round, routingState, scanVars, xfer,
                   roundEndTarget, outcomes>>

\* The while loop ends: considerTransfers is called for the round.
ContinuationsDone ==
    /\ pc = "conts"
    /\ Len(continuations) = 0
    /\ xfer' = NoTransferLoop
    /\ pc' = "transfers"
    /\ UNCHANGED <<inputs, round, routingState, markedStops, scanVars,
                   contVars, roundEndTarget, outcomes>>

(* ------------------------------------------------------------------ *)
(* Result.bestRoute                                                     *)
(* ------------------------------------------------------------------ *)

RECURSIVE ChainedEdges(_)
\* chainedEdges: the edge, then the edges reached through continuationOf.
ChainedEdges(vehicleEdge) ==
    IF vehicleEdge.continuationOf # <<>>
    THEN <<vehicleEdge>> \o ChainedEdges(vehicleEdge.continuationOf[1])
    ELSE <<vehicleEdge>>

\* A leg built from the last edge of the chain alone.
buildVehicleLegOfLastEdge(edges) ==
    LET lastEdge == edges[1]
        lastRoute == getRoute(timetable, lastEdge.routeId)
    IN  [kind |-> "Vehicle",
         from |-> stopId(lastRoute, lastEdge.from),
         to |-> stopId(lastRoute, lastEdge.to),
         departureTime |->
             departureFrom(lastRoute, lastEdge.from, lastEdge.tripIndex),
         arrivalTime |-> lastEdge.arrival,
         route |-> lastRoute.serviceRouteId,
         minTransferTime |-> Undefined,
         type |-> ""]

buildVehicleLeg(edges) ==
    LET firstEdge == edges[Len(edges)]
        lastEdge == edges[1]
        firstRoute == getRoute(timetable, firstEdge.routeId)
        lastRoute == getRoute(timetable, lastEdge.routeId)
    IN  [kind |-> "Vehicle",
         from |-> stopId(firstRoute, firstEdge.from),
         to |-> stopId(lastRoute, lastEdge.to),
         departureTime |->
             departureFrom(firstRoute, firstEdge.from, firstEdge.tripIndex),
         arrivalTime |-> lastEdge.arrival,
         route |-> firstRoute.serviceRouteId,
         minTransferTime |-> Undefined,
         type |-> ""]

\* A transfer leg that names the destination of the edge as its start.
buildTransferLegFromDestination(edge) ==
    [kind |-> "Transfer", from |-> edge.to, to |-> edge.to,
     departureTime |-> Undefined, arrivalTime |-> Undefined,
     route |-> Undefined, minTransferTime |-> edge.minTransferTime,
     type |-> edge.type]

buildTransferLeg(edge) ==
    [kind |-> "Transfer", from |-> edge.from, to |-> edge.to,
     departureTime |-> Undefined, arrivalTime |-> Undefined,
     route |-> Undefined, minTransferTime |-> edge.minTransferTime,
     type |-> edge.type]

\* More iterations than the backtracking loop can make without revisiting a
\* (round, stop) pair.
BacktrackLimit == (Len(graph) + 1) * (NumStops + 1)

RECURSIVE Backtrack(_, _, _, _)
\* The loop while (round > 0) of bestRoute; status "error" is the thrown
\* Error, "diverges" a loop that does not end.
Backtrack(currentStop, rnd, legs, fuel) ==
    IF rnd <= 0 THEN [status |-> "route", legs |-> legs]
    ELSE IF fuel = 0 THEN [status |-> "diverges", legs |-> legs]
    ELSE LET edge == IF rnd + 1 <= Len(graph) THEN graph[rnd + 1][currentStop]
                                              ELSE NoEdge
         IN  IF edge.kind = "None" THEN [status |-> "error", legs |-> legs]
             ELSE IF IsVehicle(edge)
             THEN LET leg == buildVehicleLeg(ChainedEdges(edge))
                  IN  Backtrack(leg.from, rnd - 1, <<leg>> \o legs, fuel - 1)
             ELSE IF IsTransfer(edge)
             THEN LET leg == buildTransferLeg(edge)
                  IN  Backtrack(leg.from, rnd, <<leg>> \o legs, fuel - 1)
             ELSE [status |-> "route", legs |-> legs]

RECURSIVE FastestFrom(_, _)
\* The loop that finds the first reached destination with the smallest
\* arrival; acc is [destination, time].
FastestFrom(dests, acc) ==
    IF dests = <<>> THEN acc
    ELSE LET arrivalTime == earliestArrivals[Head(dests)]
         IN  FastestFrom(Tail(dests),
                 IF arrivalTime # NoArrival
                    /\ (acc.time = NoArrival
                        \/ arrivalTime.arrival < acc.time.arrival)
                 THEN [destination |-> Head(dests), time |-> arrivalTime]
                 ELSE acc)

\* if (!fastestDestination || !fastestTime) return undefined: a StopId of 0
\* is falsy, an Arrival object is falsy only when undefined.
NoFastest(fastestDestination, fastestTime) ==
    ~Truthy(fastestDestination) \/ fastestTime = NoArrival

\* to = Undefined when the argument is not given.
bestRoute(to) ==
    LET destinationList == IF to # Undefined THEN <<to>> ELSE query.to
        dests == FlatMapEquivalent(stopsIndex, destinationList)
        fastest == FastestFrom(dests, [destination |-> Undefined,
                                       time |-> NoArrival])
    IN  IF NoFastest(fastest.destination, fastest.time)
        THEN [status |-> "undefined", legs |-> <<>>]
        ELSE Backtrack(fastest.destination, fastest.time.legNumber, <<>>,
                       BacktrackLimit)

\* The source stop ids a caller can name: the stops and one unknown id.
SourceStopIds == 0 .. NumStops

\* The methods of Result only read the routing state, so one call on each
\* Result shows every value they return.
NoCallYet == result = NoResult /\ arrivalResult = NoArrivalResult

\* A call of result.bestRoute(to) on the Result of the finished query.
BestRoute ==
    /\ pc = "done"
    /\ NoCallYet
    /\ \E to \in SourceStopIds \cup {Undefined} :
           LET r == bestRoute(to)
           IN  result' = [status |-> r.status, to |-> to, legs |-> r.legs]
    /\ UNCHANGED <<inputs, pc, round, routingState, markedStops, scanVars,
                   contVars, xfer, roundEndTarget, arrivalResult, call, suspended>>

\* The edge of the stop in the lowest round up to i, as an Arrival.
FirstEdgeFromRoundZero(stop, i) ==
    LET rounds == {k \in 0 .. i : k + 1 <= Len(graph) /\ graph[k + 1][stop].kind # "None"}
    IN  IF rounds = {} THEN NoArrival
        ELSE LET k == CHOOSE k \in rounds : \A l \in rounds : k <= l
             IN  Arrival(graph[k + 1][stop].arrival, k)

RECURSIVE FirstEdgeFrom(_, _)
\* The loop for (i = maxTransfers + 1; i >= 0; i--) of arrivalAt: the edge of
\* the stop in the highest round up to i, as an Arrival.
FirstEdgeFrom(stop, i) ==
    IF i < 0 THEN NoArrival
    ELSE IF i + 1 <= Len(graph) /\ graph[i + 1][stop].kind # "None"
    THEN Arrival(graph[i + 1][stop].arrival, i)
    ELSE FirstEdgeFrom(stop, i - 1)

RECURSIVE EarliestAmong(_, _, _)
\* The loop of arrivalAt over the equivalent stops.
EarliestAmong(stops, maxTransfers, earliestArrival) ==
    IF stops = <<>> THEN earliestArrival
    ELSE LET arrivalTime ==
                 IF maxTransfers = Undefined THEN earliestArrivals[Head(stops)]
                 ELSE FirstEdgeFrom(Head(stops), maxTransfers + 1)
         IN  EarliestAmong(Tail(stops), maxTransfers,
                 IF arrivalTime # NoArrival
                    /\ (earliestArrival = NoArrival
                        \/ arrivalTime.arrival < earliestArrival.arrival)
                 THEN arrivalTime
                 ELSE earliestArrival)

\* arrivalAt answering with the departure time for a stop that was not reached.
resultArrivalAtOrDeparture(stop, maxTransfers) ==
    EarliestAmong(equivalentStops(stopsIndex, stop), maxTransfers, Arrival(query.departureTime, 0))

\* Result.arrivalAt(stop, maxTransfers); maxTransfers = Undefined when the
\* argument is not given, NoArrival when the method returns undefined.
resultArrivalAt(stop, maxTransfers) ==
    EarliestAmong(equivalentStops(stopsIndex, stop), maxTransfers, NoArrival)

\* A call of result.arrivalAt(stop, maxTransfers) on the Result of the
\* finished query.
ArrivalAt ==
    /\ pc = "done"
    /\ NoCallYet
    /\ \E stop \in SourceStopIds, maxTransfers \in (0 .. MaxMaxTransfers) \cup {Undefined} :
           LET a == resultArrivalAt(stop, maxTransfers)
           IN  arrivalResult' =
                   [status |-> IF a = NoArrival THEN "undefined" ELSE "arrival",
                    stop |-> stop, maxTransfers |-> maxTransfers,
                    arrival |-> a]
    /\ UNCHANGED <<inputs, pc, round, routingState, markedStops, scanVars,
                   contVars, xfer, roundEndTarget, result, call, suspended>>

(* ------------------------------------------------------------------ *)
(* The timetables, stop indexes and queries of the model                *)
(* ------------------------------------------------------------------ *)

\* The minutes a vehicle of the model waits at each stop.
TripDwell == 1

\* The stop sequences of route 0 and route 1.
Shapes ==
    <<  <<<<0, 1>>, <<0, 2>>>>,
        <<<<0, 1>>, <<1, 2, 3>>>>,
        <<<<1, 0, 2>>, <<2, 3>>>>,
        <<<<0, 1>>, <<2, 3>>>>  >>

\* The trips of a route, each <<time at the first stop, minutes per hop>>, in
\* the order in which the feed lists them.
TripPlans ==
    <<  << <<0, 1>> >>,
        << <<0, 3>> >>,
        << <<3, 1>>, <<0, 1>> >>  >>

\* Pick-up / drop-off restrictions and in-seat continuations:
\*   noDropOff: no drop-off at the last stop of route 0
\*   noPickUp:  no pick-up at the first stop of route 1
\*   continueAt: the stop index of route 1 at which trip 0 of route 0
\*               continues in seat from its last stop, as the last trip of
\*               route 1 (Undefined: nowhere)
\*   cycle: trip 0 of route 1 continues as trip 0 of route 0 as well
Features ==
    <<  [noDropOff |-> FALSE, noPickUp |-> FALSE, continueAt |-> Undefined, cycle |-> FALSE],
        [noDropOff |-> TRUE,  noPickUp |-> FALSE, continueAt |-> Undefined, cycle |-> FALSE],
        [noDropOff |-> FALSE, noPickUp |-> TRUE,  continueAt |-> Undefined, cycle |-> FALSE],
        [noDropOff |-> FALSE, noPickUp |-> FALSE, continueAt |-> 0, cycle |-> FALSE],
        [noDropOff |-> FALSE, noPickUp |-> FALSE, continueAt |-> 1, cycle |-> FALSE],
        [noDropOff |-> TRUE,  noPickUp |-> TRUE,  continueAt |-> 0, cycle |-> FALSE],
        [noDropOff |-> FALSE, noPickUp |-> TRUE,  continueAt |-> 0, cycle |-> FALSE],
        [noDropOff |-> FALSE, noPickUp |-> FALSE, continueAt |-> 0, cycle |-> TRUE]  >>

Transfer(from, destination, type, minTransferTime) ==
    [from |-> from, destination |-> destination, type |-> type,
     minTransferTime |-> minTransferTime]

\* The transfers of the feed.
TransferPlans ==
    <<  <<>>,
        << Transfer(1, 3, "REQUIRES_MINIMAL_TIME", 5),
           Transfer(3, 0, "RECOMMENDED", Undefined) >>,
        << Transfer(1, 3, "RECOMMENDED", Undefined),
           Transfer(2, 1, "REQUIRES_MINIMAL_TIME", 0) >>,
        << Transfer(0, 1, "REQUIRES_MINIMAL_TIME", 3),
           Transfer(2, 3, "RECOMMENDED", Undefined) >>,
        << Transfer(1, 2, "REQUIRES_MINIMAL_TIME", 1),
           Transfer(1, 0, "IN_SEAT", Undefined),
           Transfer(2, 3, "RECOMMENDED", Undefined) >>  >>

\* The stops index: no stop has a parent, or the last stop is a station whose
\* platforms are stops 1 and 2. The source id of stop s is s.
StopIndexes ==
    <<  [s \in Stops |-> [parent |-> Undefined, children |-> <<>>]],
        [s \in Stops |->
            [parent |-> IF s \in {1, 2} THEN NumStops - 1 ELSE Undefined,
             children |-> IF s = NumStops - 1 THEN <<1, 2>> ELSE <<>>]]  >>

BuilderTrip(plan, stopsCount, noPickUpAt, noDropOffAt) ==
    LET start == plan[1]
        hop == plan[2]
        arrival(i) == start + (i - 1) * (hop + TripDwell)
    IN  [firstDeparture |-> arrival(1) + TripDwell,
         arrivalTimes |-> [i \in 1 .. stopsCount |-> arrival(i)],
         departureTimes |-> [i \in 1 .. stopsCount |-> arrival(i) + TripDwell],
         pickUpTypes |-> [i \in 1 .. stopsCount |->
                             IF i - 1 = noPickUpAt THEN NOT_AVAILABLE ELSE REGULAR],
         dropOffTypes |-> [i \in 1 .. stopsCount |->
                              IF i - 1 = noDropOffAt THEN NOT_AVAILABLE ELSE REGULAR]]

Builder(serviceRouteId, stops, plans, noPickUpAt, noDropOffAt) ==
    [serviceRouteId |-> serviceRouteId,
     stops |-> stops,
     trips |-> [t \in 1 .. Len(plans) |->
                   BuilderTrip(plans[t], Len(stops), noPickUpAt, noDropOffAt)]]

\* The in-seat continuations the feed asks for, as <<from key, boarding>>.
WantedContinuations(routes, feature) ==
    LET lastOf0 == Len(routes[1].stops) - 1
        lastOf1 == Len(routes[2].stops) - 1
    IN  (IF feature.continueAt = Undefined THEN {}
         ELSE {<< <<lastOf0, 0, 0>>,
                  [routeId |-> 1, hopOnStopIndex |-> feature.continueAt,
                   tripIndex |-> nbTrips(routes[2]) - 1] >>})
        \cup
        (IF feature.cycle
         THEN {<< <<lastOf1, 1, 0>>,
                  [routeId |-> 0, hopOnStopIndex |-> 0, tripIndex |-> 0] >>}
         ELSE {})

\* buildTripTransfers registers a continuation only when the to-trip departs
\* after the from-trip arrives.
RegisteredContinuations(routes, feature) ==
    {c \in WantedContinuations(routes, feature) :
        departureFrom(routes[c[2].routeId + 1], c[2].hopOnStopIndex,
                      c[2].tripIndex)
        > arrivalAt(routes[c[1][2] + 1], c[1][1], c[1][3])}

MakeTimetable(shape, plan0, plan1, feature, transfers) ==
    LET routes ==
            <<finalizeRouteFromBuilder(
                  Builder(0, shape[1], plan0, Undefined,
                          IF feature.noDropOff THEN Len(shape[1]) - 1
                                               ELSE Undefined)),
              finalizeRouteFromBuilder(
                  Builder(1, shape[2], plan1,
                          IF feature.noPickUp THEN 0 ELSE Undefined,
                          Undefined))>>
        registered == RegisteredContinuations(routes, feature)
    IN  [routesAdjacency |-> routes,
         serviceRoutes |-> <<[type |-> "BUS"], [type |-> "RAIL"]>>,
         stopsAdjacency |->
             [s \in 1 .. NumStops |->
                 [routes |-> SelectSeq(<<0, 1>>,
                                 LAMBDA r : Includes(routes[r + 1].stops, s - 1)),
                  transfers |-> SelectSeq(transfers,
                                    LAMBDA t : t.from = s - 1)]],
         tripContinuations |->
             [k \in {c[1] : c \in registered} |->
                 <<(CHOOSE c \in registered : c[1] = k)[2]>>]]

\* The minTransferTime option of the queries of the model.
QueryMinTransferTime == 2

MakeQuery(from, to, departureTime, maxTransfers) ==
    [from |-> from, to |-> to, departureTime |-> departureTime,
     options |-> [maxTransfers |-> maxTransfers,
                  minTransferTime |-> QueryMinTransferTime,
                  transportModes |-> ALL_TRANSPORT_MODES]]

\* The trips of route 0 and of route 1, as positions in TripPlans.
PlanPairs == {<<1, 1>>, <<1, 2>>, <<2, 1>>, <<1, 3>>, <<3, 1>>}

\* <<feature, transfer plan, stop index>>: at most one of them is not the
\* plain one.
Variants ==
    {<<f, 1, 1>> : f \in 1 .. Len(Features)}
    \cup {<<1, t, 1>> : t \in 1 .. Len(TransferPlans)}
    \cup {<<1, 1, i>> : i \in 1 .. Len(StopIndexes)}

\* The inputs of the model: a timetable, a stops index and a query. A query
\* names the last stop only when that stop is a station, and an unknown stop
\* only on the plain timetable.
Scenarios ==
    {p \in [shape : 1 .. Len(Shapes), plans : PlanPairs, variant : Variants,
            from : {0, 1, NumStops - 1, NumStops}, to : SourceStopIds,
            departureTime : 0 .. MaxDepartureTime,
            maxTransfers : 0 .. MaxMaxTransfers] :
        /\ p.from = NumStops - 1 => p.variant[3] # 1
        /\ (p.from = NumStops \/ p.to = NumStops) =>
               (p.variant = <<1, 1, 1>> /\ p.plans = <<1, 1>>)}

Init ==
    /\ \E p \in Scenarios :
        /\ timetable = MakeTimetable(Shapes[p.shape], TripPlans[p.plans[1]],
                                     TripPlans[p.plans[2]],
                                     Features[p.variant[1]],
                                     TransferPlans[p.variant[2]])
        /\ stopsIndex = StopIndexes[p.variant[3]]
        /\ query = MakeQuery(p.from, <<p.to>>, p.departureTime, p.maxTransfers)
    /\ pc = "start"
    /\ round = 0
    /\ earliestArrivals = [s \in Stops |-> NoArrival]
    /\ graph = <<>>
    /\ destinations = <<>>
    /\ markedStops = <<>>
    /\ reachableRoutes = <<>>
    /\ routeCursor = 1
    /\ scan = NoScan
    /\ continuations = <<>>
    /\ contCursor = 1
    /\ stopsFromContinuations = <<>>
    /\ xfer = NoTransferLoop
    /\ roundEndTarget = <<>>
    /\ result = NoResult
    /\ arrivalResult = NoArrivalResult
    /\ call = NoCall
    /\ suspended = NoSuspended

Next ==
    \/ InitRoutingState
    \/ TransferSource
    \/ RelaxTransfer
    \/ EndConsiderTransfers
    \/ BeginRound
    \/ Finish
    \/ StartScan
    \/ ScanStop
    \/ EndRouteScan
    \/ RoutesDone
    \/ StartContinuationScan
    \/ EndContinuationScan
    \/ ContinuationBatchDone
    \/ ContinuationsDone
    \/ BestRoute
    \/ ArrivalAt

Spec == Init /\ [][Next]_vars

(* ------------------------------------------------------------------ *)
(* Properties of the routing state                                      *)
(* ------------------------------------------------------------------ *)

\* A round (or the initialisation) is over, or route() has returned.
RoundIsOver == pc \in {"roundEnd", "done"}

\* The rounds (as indexes of graph) in which stop s has an edge.
RoundsWithEdge(s) == {j \in 1 .. Len(graph) : graph[j][s].kind # "None"}

SetMin(S) == CHOOSE x \in S : \A y \in S : x <= y

\* C2 - Monotone arrivals: at the end of every round k, every stop with an
\* edge in graph[k] has an earliest arrival no later than that edge's arrival,
\* and the earliest arrival of every reached stop is the minimum of its edges'
\* arrivals over the rounds so far, which is the arrival of the edge stored in
\* the round of its leg number.
C2_MonotoneArrivals ==
    RoundIsOver =>
        \A s \in Stops :
            /\ graph[round + 1][s].kind # "None" =>
                   earliestArrivals[s].arrival <= graph[round + 1][s].arrival
            /\ earliestArrivals[s] # NoArrival =>
                   /\ RoundsWithEdge(s) # {}
                   /\ earliestArrivals[s].arrival =
                          SetMin({graph[j][s].arrival : j \in RoundsWithEdge(s)})
                   /\ earliestArrivals[s].legNumber + 1 \in RoundsWithEdge(s)
                   /\ graph[earliestArrivals[s].legNumber + 1][s].arrival =
                          earliestArrivals[s].arrival

\* A round is over in which a stop reached in an earlier round got a new edge.
C2_Witness ==
    /\ RoundIsOver
    /\ round >= 1
    /\ \E s \in Stops :
           /\ Cardinality(RoundsWithEdge(s)) >= 2
           /\ earliestArrivals[s].legNumber = round

\* C3 - Over the whole run of route() the arrival stored for a stop never
\* increases, and every write to earliestArrivals stores a strictly earlier
\* arrival than the one it replaces (an absent entry counts as never).
C3_ArrivalsNeverIncrease ==
    [][\A s \in Stops :
           /\ earliestArrivals'[s].arrival <= earliestArrivals[s].arrival
           /\ earliestArrivals'[s] # earliestArrivals[s] =>
                  earliestArrivals'[s].arrival < earliestArrivals[s].arrival]_vars

\* A transfer is being relaxed in a round whose scans have replaced the
\* arrival a stop had from an earlier round.
C3_Witness ==
    /\ pc = "transfers"
    /\ round >= 1
    /\ xfer.j >= 1
    /\ \E s \in Stops, j \in 1 .. round :
           /\ graph[j][s].kind # "None"
           /\ IsVehicle(graph[round + 1][s])
           /\ earliestArrivals[s].arrival < graph[j][s].arrival

\* The Vehicle edges of all rounds.
VehicleEdges ==
    {e \in {graph[k][s] : k \in 1 .. Len(graph), s \in Stops} : IsVehicle(e)}

DropOffAllowed(e) ==
    dropOffTypeAt(getRoute(timetable, e.routeId), e.to, e.tripIndex)
        # "NOT_AVAILABLE"

PickUpAllowed(e) ==
    pickUpTypeFrom(getRoute(timetable, e.routeId), e.from, e.tripIndex)
        # "NOT_AVAILABLE"

\* C4 - Trip admissibility as stated: after route() every Vehicle edge, the
\* edges of continuation scans included, goes forward on its route
\* (from < to), alights where drop-off is allowed and boards where pick-up is
\* allowed.
C4_TripAdmissibility ==
    pc = "done" =>
        \A e \in VehicleEdges :
            e.from < e.to /\ DropOffAllowed(e) /\ PickUpAllowed(e)

\* C4 - Trip admissibility as the scans establish it: every Vehicle edge has
\* from <= to and alights where drop-off is allowed; an edge of a route scan
\* (no continuationOf) has from < to and boards where pick-up is allowed.
C4_TripAdmissibilityOfScans ==
    \A e \in VehicleEdges :
        /\ e.from <= e.to
        /\ DropOffAllowed(e)
        /\ e.continuationOf = <<>> => (e.from < e.to /\ PickUpAllowed(e))

\* route() has returned a graph with an edge of a route scan and an edge of a
\* continuation scan that alights at the index at which it continues.
C4_Witness ==
    /\ pc = "done"
    /\ \E e \in VehicleEdges : e.continuationOf = <<>>
    /\ \E e \in VehicleEdges : e.continuationOf # <<>> /\ e.from = e.to

\* C5 - Transfer non-chaining: in the graph route() returns, the source stop
\* of every Transfer edge of a round has an edge in that round that is not a
\* Transfer.
C5_TransferNonChaining ==
    pc = "done" =>
        \A k \in 1 .. Len(graph), d \in Stops :
            IsTransfer(graph[k][d]) => ~IsTransfer(graph[k][graph[k][d].from])

\* C7 - Target pruning as stated: once a destination has arrival A at the end
\* of a round, no edge of a later round, Vehicle or Transfer, arrives at A or
\* later.
C7_TargetPruning ==
    \A j \in 1 .. Len(roundEndTarget), k \in 1 .. Len(graph), s \in Stops :
        (k > j /\ graph[k][s].kind # "None") =>
            graph[k][s].arrival < roundEndTarget[j]

\* C7 - Target pruning of the route scans: once a destination has arrival A
\* at the end of a round, no Vehicle edge of a later round arrives at A or
\* later.
C7_TargetPruningOfVehicleEdges ==
    \A j \in 1 .. Len(roundEndTarget), k \in 1 .. Len(graph), s \in Stops :
        (k > j /\ IsVehicle(graph[k][s])) =>
            graph[k][s].arrival < roundEndTarget[j]

\* A destination was reached at the end of a round, and a later round holds a
\* Vehicle edge and a Transfer edge that arrives no earlier than the
\* destination's arrival.
C7_Witness ==
    \E j \in 1 .. Len(roundEndTarget), k \in 1 .. Len(graph) :
        /\ k > j
        /\ roundEndTarget[j] # UNREACHED
        /\ \E s \in Stops : IsVehicle(graph[k][s])
        /\ \E s \in Stops :
               IsTransfer(graph[k][s]) /\ graph[k][s].arrival >= roundEndTarget[j]

\* C8 - Round budget: every stop in earliestArrivals has a leg number of at
\* most maxTransfers + 1, and graph holds at most maxTransfers + 2 rounds.
C8_RoundBudget ==
    /\ \A s \in Stops :
           earliestArrivals[s] # NoArrival =>
               earliestArrivals[s].legNumber <= query.options.maxTransfers + 1
    /\ Len(graph) <= query.options.maxTransfers + 2

\* route() has returned after its last allowed round, in which it reached a
\* destination.
C8_Witness ==
    /\ pc = "done"
    /\ query.options.maxTransfers >= 1
    /\ Len(graph) = query.options.maxTransfers + 2
    /\ \E d \in Range(destinations) :
           earliestArrivals[d].legNumber = query.options.maxTransfers + 1

(* ------------------------------------------------------------------ *)
(* The journeys of the timetable, computed without the router           *)
(* ------------------------------------------------------------------ *)

RouteIds == 0 .. (Len(timetable.routesAdjacency) - 1)

\* A seat <<routeId, tripIndex, stopIndex, rode>>: the rider sits in the trip
\* at the stop index; rode is FALSE at the stop where the rider boarded.
Boardings(best) ==
    {seat \in UNION {{<<r, t, b, FALSE>> :
                         t \in 0 .. (nbTrips(getRoute(timetable, r)) - 1),
                         b \in 0 .. (getNbStops(getRoute(timetable, r)) - 1)} :
                     r \in RouteIds} :
        LET route == getRoute(timetable, seat[1])
            stop == stopId(route, seat[3])
        IN  /\ best[stop] # UNREACHED
            /\ pickUpTypeFrom(route, seat[3], seat[2]) # "NOT_AVAILABLE"
            /\ departureFrom(route, seat[3], seat[2]) >= best[stop]}

\* The seats one step after a seat: the next stop of the trip, and, once the
\* rider has ridden, the trips that continue in seat from here.
SeatSteps(seat) ==
    LET route == getRoute(timetable, seat[1])
    IN  (IF seat[3] + 1 < getNbStops(route)
         THEN {<<seat[1], seat[2], seat[3] + 1, TRUE>>}
         ELSE {})
        \cup
        (IF seat[4]
         THEN {<<c.routeId, c.tripIndex, c.hopOnStopIndex, TRUE>> :
                  c \in Range(getContinuousTrips(timetable, seat[3], seat[1],
                                                 seat[2]))}
         ELSE {})

RECURSIVE SeatsFrom(_)
SeatsFrom(seats) ==
    LET next == seats \cup UNION {SeatSteps(seat) : seat \in seats}
    IN  IF next = seats THEN seats ELSE SeatsFrom(next)

\* The earliest arrival at each stop by one boarding from the arrivals best.
RideArrivals(best) ==
    LET seats == SeatsFrom(Boardings(best))
    IN  [s \in Stops |->
            LET times ==
                    {arrivalAt(getRoute(timetable, seat[1]), seat[3], seat[2]) :
                        seat \in {x \in seats :
                            /\ x[4]
                            /\ stopId(getRoute(timetable, x[1]), x[3]) = s
                            /\ dropOffTypeAt(getRoute(timetable, x[1]), x[3],
                                             x[2]) # "NOT_AVAILABLE"}}
            IN  IF times = {} THEN UNREACHED ELSE SetMin(times)]

\* The earliest arrival at each stop by one transfer from the arrivals sources.
WalkArrivals(sources) ==
    [d \in Stops |->
        LET times ==
                UNION {{sources[s] + TransferTime(tr, query.options) :
                           tr \in {x \in Range(getTransfers(timetable, s)) :
                                      x.destination = d}} :
                       s \in {x \in Stops : sources[x] # UNREACHED}}
        IN  IF times = {} THEN UNREACHED ELSE SetMin(times)]

RECURSIVE ReferenceArrivals(_)
\* The earliest arrival at each stop by a journey of at most k boardings with
\* at most one transfer at the start and after each ride.
ReferenceArrivals(k) ==
    IF k = 0
    THEN LET start == [s \in Stops |->
                          IF Includes(equivalentStops(stopsIndex, query.from), s)
                          THEN query.departureTime ELSE UNREACHED]
             walked == WalkArrivals(start)
         IN  [s \in Stops |-> Min(start[s], walked[s])]
    ELSE LET prev == ReferenceArrivals(k - 1)
             ride == RideArrivals(prev)
             walked == WalkArrivals(ride)
         IN  [s \in Stops |-> Min(prev[s], Min(ride[s], walked[s]))]

\* The earliest arrival at any expanded destination of the query.
ReferenceOptimum ==
    LET best == ReferenceArrivals(query.options.maxTransfers + 1)
        times == {best[d] : d \in Range(FlatMapEquivalent(stopsIndex, query.to))}
    IN  IF times = {} THEN UNREACHED ELSE SetMin(times)

\* C1 - Earliest-arrival optimality: after route() the smallest earliest
\* arrival over the expanded destinations is the earliest time at which a
\* feasible journey of at most maxTransfers + 1 boardings reaches a
\* destination, and no destination is reached iff there is no such journey.
C1_Optimality ==
    pc = "done" =>
        earliestArrivalAtAnyStop(earliestArrivals, destinations)
            = ReferenceOptimum

\* C6 - An in-seat continuation does not consume a round: when the rider can
\* board trip T of route R in round k at a stop reached in round k - 1 and T
\* has a registered continuation at a later stop index, every destination the
\* continuing trip serves after its hop-on index, with drop-off allowed, has
\* an edge of a round up to k that arrives no later than the continuing trip.
C6_ContinuationKeepsRound ==
    pc = "done" =>
        \A k \in 1 .. (Len(graph) - 1), r \in RouteIds :
            LET route == getRoute(timetable, r)
            IN  \A b \in 0 .. (getNbStops(route) - 1) :
                    LET previousEdge == graph[k][stopId(route, b)]
                        trip == IF previousEdge.kind = "None" THEN Undefined
                                ELSE findEarliestTrip(route, b,
                                                      previousEdge.arrival,
                                                      Undefined)
                    IN  trip # Undefined =>
                        \A i \in (b + 1) .. (getNbStops(route) - 1) :
                        \A c \in Range(getContinuousTrips(timetable, i, r, trip)) :
                            LET next == getRoute(timetable, c.routeId)
                            IN  \A j \in (c.hopOnStopIndex + 1)
                                         .. (getNbStops(next) - 1) :
                                    LET s == stopId(next, j)
                                    IN  (/\ Includes(destinations, s)
                                         /\ dropOffTypeAt(next, j, c.tripIndex)
                                                # "NOT_AVAILABLE")
                                        => \E n \in 1 .. (k + 1) :
                                               /\ graph[n][s].kind # "None"
                                               /\ graph[n][s].arrival
                                                      <= arrivalAt(next, j,
                                                                   c.tripIndex)

\* The stops bestRoute(to) looks at.
ExpandedDestinations(to) ==
    FlatMapEquivalent(stopsIndex, IF to # Undefined THEN <<to>> ELSE query.to)

\* C9 - bestRoute(to) returns no route if and only if none of the stops
\* equivalent to the destination has an entry in earliestArrivals, whatever
\* the StopId of the destination.
C9_NoRouteIffUnreached ==
    result.status # "none" =>
        (result.status = "undefined"
            <=> \A d \in Range(ExpandedDestinations(result.to)) :
                    earliestArrivals[d] = NoArrival)

\* The reached destination bestRoute(to) reconstructs the route to.
FastestDestination(to) ==
    FastestFrom(ExpandedDestinations(to),
                [destination |-> Undefined, time |-> NoArrival])

\* C10 - Reconstruction round accounting: for a destination with leg number
\* k >= 1 bestRoute returns a route with exactly k vehicle legs, in travel
\* order: each leg starts where the previous one ends and the last leg ends
\* at the destination.
C10_RoundAccounting ==
    LET fastest == FastestDestination(result.to)
        legs == result.legs
    IN  (/\ result.status # "none"
         /\ fastest.time # NoArrival
         /\ fastest.time.legNumber >= 1)
        => /\ result.status = "route"
           /\ Cardinality({i \in 1 .. Len(legs) : legs[i].kind = "Vehicle"})
                  = fastest.time.legNumber
           /\ \A i \in 1 .. (Len(legs) - 1) : legs[i].to = legs[i + 1].from
           /\ legs[Len(legs)].to = fastest.destination

(* ------------------------------------------------------------------ *)
(* Properties of the reconstruction                                     *)
(* ------------------------------------------------------------------ *)

RECURSIVE FirstBoarded(_)
\* The edge e_1 at the bottom of the continuationOf chain of a Vehicle edge.
FirstBoarded(edge) ==
    IF edge.continuationOf = <<>> THEN edge
    ELSE FirstBoarded(edge.continuationOf[1])

\* The number of edges of the continuationOf chain of a Vehicle edge.
RECURSIVE ChainLength(_)
ChainLength(edge) ==
    IF edge.continuationOf = <<>> THEN 1
    ELSE 1 + ChainLength(edge.continuationOf[1])

\* The leg is the one rider-visible leg of the chain that ends in edge.
IsLegOfChain(leg, edge) ==
    LET first == FirstBoarded(edge)
        firstRoute == getRoute(timetable, first.routeId)
        lastRoute == getRoute(timetable, edge.routeId)
    IN  /\ leg.kind = "Vehicle"
        /\ leg.from = stopId(firstRoute, first.from)
        /\ leg.departureTime = departureFrom(firstRoute, first.from,
                                             first.tripIndex)
        /\ leg.to = stopId(lastRoute, edge.to)
        /\ leg.arrivalTime = arrivalAt(lastRoute, edge.to, edge.tripIndex)

RECURSIVE LegsFollowEdges(_, _, _)
\* The legs, read from the last one back, are the legs of the edges met when
\* walking the graph back from stop at round rnd: a Vehicle edge with its
\* whole chain is one vehicle leg and the walk goes on from the boarding stop
\* of the first edge of the chain one round earlier; a Transfer edge is one
\* transfer leg and the walk goes on from its source in the same round.
LegsFollowEdges(legs, stop, rnd) ==
    IF legs = <<>> THEN TRUE
    ELSE LET leg == legs[Len(legs)]
             rest == SubSeq(legs, 1, Len(legs) - 1)
             edge == graph[rnd + 1][stop]
         IN  IF IsVehicle(edge)
             THEN /\ IsLegOfChain(leg, edge)
                  /\ LegsFollowEdges(
                         rest,
                         stopId(getRoute(timetable, FirstBoarded(edge).routeId),
                                FirstBoarded(edge).from),
                         rnd - 1)
             ELSE /\ IsTransfer(edge)
                  /\ leg.kind = "Transfer"
                  /\ leg.from = edge.from
                  /\ leg.to = edge.to
                  /\ LegsFollowEdges(rest, edge.from, rnd)

\* C11 - A Vehicle edge with a continuationOf chain e_n -> ... -> e_1 is
\* reconstructed as exactly one vehicle leg, from the boarding stop and
\* departure of e_1 on e_1's route and trip to the alight stop and arrival of
\* e_n, and the backtracking goes on from e_1's boarding stop at the previous
\* round: every route bestRoute returns consists of such legs.
C11_ChainIsOneLeg ==
    result.status = "route" =>
        LET fastest == FastestDestination(result.to)
        IN  LegsFollowEdges(result.legs, fastest.destination,
                            fastest.time.legNumber)

\* bestRoute has returned a single leg for a destination whose edge continues
\* a trip of another route.
C11_Witness ==
    /\ result.status = "route"
    /\ Len(result.legs) = 1
    /\ LET fastest == FastestDestination(result.to)
           edge == graph[fastest.time.legNumber + 1][fastest.destination]
       IN  /\ IsVehicle(edge)
           /\ ChainLength(edge) >= 2
           /\ FirstBoarded(edge).routeId # edge.routeId
           /\ result.legs[1].from # stopId(getRoute(timetable, edge.routeId),
                                           edge.from)

(* ------------------------------------------------------------------ *)
(* Properties of Result.arrivalAt                                       *)
(* ------------------------------------------------------------------ *)

\* The <<equivalent stop, round>> pairs arrivalAt(stop, B) may answer from:
\* the edges of the equivalents of the stop in the rounds up to B + 1.
EdgesWithin(stop, B) ==
    {c \in Range(equivalentStops(stopsIndex, stop)) \X (0 .. Min(B + 1, Len(graph) - 1)) :
        graph[c[2] + 1][c[1]].kind # "None"}

\* The equivalents of the stop that have an earliest arrival.
ReachedEquivalents(stop) ==
    {e \in Range(equivalentStops(stopsIndex, stop)) : earliestArrivals[e] # NoArrival}

\* C12 - arrivalAt(stop, B) returns the minimum arrival of the edges of the
\* equivalents of the stop over the rounds up to B + 1, with the round it
\* was taken from as leg number, and returns nothing exactly when there is no
\* such edge; without B it returns the smallest entry of earliestArrivals
\* among the equivalents.
C12_ArrivalAtIsBestWithinBudget ==
    arrivalResult.status # "none" =>
        LET stop == arrivalResult.stop
            B == arrivalResult.maxTransfers
            a == arrivalResult.arrival
        IN  IF B # Undefined
            THEN LET cands == EdgesWithin(stop, B)
                 IN  /\ (arrivalResult.status = "undefined") <=> (cands = {})
                     /\ cands # {} =>
                            /\ a.arrival = SetMin({graph[c[2] + 1][c[1]].arrival : c \in cands})
                            /\ \E c \in cands :
                                   /\ a.legNumber = c[2]
                                   /\ graph[c[2] + 1][c[1]].arrival = a.arrival
            ELSE LET reached == ReachedEquivalents(stop)
                 IN  /\ (arrivalResult.status = "undefined") <=> (reached = {})
                     /\ reached # {} =>
                            /\ a \in {earliestArrivals[e] : e \in reached}
                            /\ a.arrival = SetMin({earliestArrivals[e].arrival : e \in reached})

\* arrivalAt answered within a budget that leaves out a later round: an
\* equivalent of the stop has an edge in a round of the budget after round 0
\* and an edge in a round beyond the budget.
C12_Witness ==
    /\ arrivalResult.status = "arrival"
    /\ arrivalResult.maxTransfers # Undefined
    /\ arrivalResult.arrival.legNumber >= 1
    /\ \E c \in EdgesWithin(arrivalResult.stop, arrivalResult.maxTransfers) :
           /\ c[2] >= 1
           /\ \E k \in arrivalResult.maxTransfers + 2 .. Len(graph) - 1 :
                  graph[k + 1][c[1]].kind # "None"

(* ------------------------------------------------------------------ *)
(* Domain misses                                                        *)
(* ------------------------------------------------------------------ *)

UnknownStop(sourceId) == equivalentStops(stopsIndex, sourceId) = <<>>

\* The stop has no routes and no transfers.
Unserved(stop) ==
    /\ routesPassingThrough(timetable, stop) = <<>>
    /\ getTransfers(timetable, stop) = <<>>

\* No transfer of the timetable leads to the stop.
NoTransferTo(stop) ==
    \A s \in Stops : \A i \in 1 .. Len(getTransfers(timetable, s)) :
        getTransfers(timetable, s)[i].destination # stop

\* The destination asked for by a call of bestRoute; Undefined when the call
\* names one stop that is served.
MissedByBestRoute(Miss(_)) ==
    LET asked == IF result.to # Undefined THEN <<result.to>> ELSE query.to
    IN  \A i \in 1 .. Len(asked) : Miss(asked[i])

\* What C13 asks of the calls made on a Result when the origin is unknown or
\* the destination is a miss in the sense of Miss.
DomainMissesReturnNothing(Miss(_)) ==
    /\ UnknownStop(query.from) =>
           /\ \A k \in 1 .. Len(graph), s \in Stops : graph[k][s].kind = "None"
           /\ \A s \in Stops : earliestArrivals[s] = NoArrival
           /\ result.status \in {"none", "undefined"}
           /\ arrivalResult.status \in {"none", "undefined"}
    /\ (result.status # "none" /\ MissedByBestRoute(Miss)) =>
           result.status = "undefined"
    /\ (arrivalResult.status # "none" /\ Miss(arrivalResult.stop)) =>
           arrivalResult.status = "undefined"

\* A destination that is unknown or has no routes and no transfers.
UnknownOrUnserved(sourceId) ==
    UnknownStop(sourceId) \/ Unserved(sourceId)

\* A destination that is unknown, or none of whose equivalent stops has a
\* route, a transfer from it or to it, or is a stop of the origin.
UnknownOrCutOff(sourceId) ==
    \A e \in Range(equivalentStops(stopsIndex, sourceId)) :
        /\ Unserved(e)
        /\ NoTransferTo(e)
        /\ e \notin Range(equivalentStops(stopsIndex, query.from))

\* C13 - Domain misses never fail: for an unknown origin route() records no
\* edge and no arrival, and for an unknown origin, an unknown destination or
\* a destination with no routes and no transfers bestRoute() and
\* arrivalAt(to) return no value.
C13_DomainMisses == DomainMissesReturnNothing(UnknownOrUnserved)

\* C13 as it holds: the destination with no routes and no transfers must also
\* have no transfer leading to it and no equivalent stop that is served or
\* is a stop of the origin.
C13_DomainMissesOfCutOffStops == DomainMissesReturnNothing(UnknownOrCutOff)

\* arrivalAt was asked, after a query from a known origin that reached other
\* stops, for a known stop with no routes and no transfers.
C13_Witness ==
    /\ pc = "done"
    /\ ~UnknownStop(query.from)
    /\ \E s \in Stops : s \notin Range(equivalentStops(stopsIndex, query.from)) /\ earliestArrivals[s] # NoArrival
    /\ arrivalResult.status = "undefined"
    /\ ~UnknownStop(arrivalResult.stop)
    /\ UnknownOrCutOff(arrivalResult.stop)

(* ------------------------------------------------------------------ *)
(* Calls of single functions                                            *)
(* ------------------------------------------------------------------ *)

\* The most trips of a route and the latest departure in the calls of
\* findEarliestTrip.
MaxTrips == 2

MaxTripTime == 2

\* The router is not running a query.
NoQueryRuns ==
    /\ timetable = MakeTimetable(Shapes[1], TripPlans[1], TripPlans[1], Features[1], TransferPlans[1])
    /\ stopsIndex = StopIndexes[1]
    /\ query = MakeQuery(0, <<1>>, 0, 0)
    /\ pc = "idle"
    /\ round = 0
    /\ earliestArrivals = [s \in Stops |-> NoArrival]
    /\ graph = <<>>
    /\ destinations = <<>>
    /\ markedStops = <<>>
    /\ reachableRoutes = <<>>
    /\ routeCursor = 1
    /\ scan = NoScan
    /\ continuations = <<>>
    /\ contCursor = 1
    /\ stopsFromContinuations = <<>>
    /\ xfer = NoTransferLoop
    /\ roundEndTarget = <<>>
    /\ result = NoResult
    /\ arrivalResult = NoArrivalResult
    /\ suspended = NoSuspended

\* A call that has not returned yet.
Called(op, args) == [op |-> op, args |-> args, done |-> FALSE, returned |-> Undefined]

\* A trip of a builder from its departures d at the first and at the second
\* stop (one minute per stop after that) and its pick-up type at every stop.
TestTrip(d, pickUpType, stopsCount) ==
    LET time(i) == IF i = 1 THEN d[1] ELSE d[2] + (i - 2)
    IN  [firstDeparture |-> d[1],
         arrivalTimes |-> [i \in 1 .. stopsCount |-> time(i)],
         departureTimes |-> [i \in 1 .. stopsCount |-> time(i)],
         pickUpTypes |-> [i \in 1 .. stopsCount |-> pickUpType],
         dropOffTypes |-> [i \in 1 .. stopsCount |-> REGULAR]]

\* The routes finalizeRouteFromBuilder makes of two or three stops and up to
\* MaxTrips trips, in any order of insertion; a later trip may overtake.
TestRoutes ==
    LET times == {d \in (0 .. 1) \X (0 .. MaxTripTime) : d[1] <= d[2]}
        trips == times \X {REGULAR, NOT_AVAILABLE}
        plans == UNION {[1 .. n -> trips] : n \in 0 .. MaxTrips}
    IN  {finalizeRouteFromBuilder(
             [serviceRouteId |-> 0,
              stops |-> [i \in 1 .. stopsCount |-> i - 1],
              trips |-> [t \in 1 .. Len(plan) |-> TestTrip(plan[t][1], plan[t][2], stopsCount)]]) :
         plan \in plans, stopsCount \in {2, 3}}

FindEarliestTripCalls ==
    {Called("findEarliestTrip", a) :
        a \in [route : TestRoutes, stopIndex : {0, 1},
               after : 0 .. MaxTripTime + 1,
               beforeTrip : (0 .. MaxTrips + 1) \cup {Undefined}]}

\* route.findEarliestTrip(stopIndex, after, beforeTrip)
FindEarliestTrip ==
    /\ call.op = "findEarliestTrip"
    /\ ~call.done
    /\ call' = [call EXCEPT !.done = TRUE,
                            !.returned = findEarliestTrip(call.args.route, call.args.stopIndex, call.args.after, call.args.beforeTrip)]
    /\ UNCHANGED <<inputs, pc, round, routingState, markedStops, scanVars,
                   contVars, xfer, roundEndTarget, result, arrivalResult, suspended>>

RECURSIVE Arrangements(_)
\* The sequences without repetition of members of a set: the orders in which
\* a Set of stops can be iterated.
Arrangements(S) ==
    {<<>>} \cup UNION {{<<x>> \o rest : rest \in Arrangements(S \ {x})} : x \in S}

\* The timetables of the shapes of the model, without transfers.
TestTimetables ==
    {MakeTimetable(Shapes[i], TripPlans[1], TripPlans[1], Features[1], TransferPlans[1]) : i \in 1 .. Len(Shapes)}

FindReachableRoutesCalls ==
    {Called("findReachableRoutes", a) :
        a \in [timetable : TestTimetables, fromStops : Arrangements(Stops),
               transportModes : SUBSET {"BUS", "RAIL", "TRAM"}]}

\* timetable.findReachableRoutes(fromStops, transportModes)
FindReachableRoutes ==
    /\ call.op = "findReachableRoutes"
    /\ ~call.done
    /\ call' = [call EXCEPT !.done = TRUE,
                            !.returned = findReachableRoutes(call.args.timetable, call.args.fromStops, call.args.transportModes)]
    /\ UNCHANGED <<inputs, pc, round, routingState, markedStops, scanVars,
                   contVars, xfer, roundEndTarget, result, arrivalResult, suspended>>

\* tripStopId.ts and its copy for TripBoardingId hold the same five
\* functions. A bigint is kept as its base-2^20 digits, lowest first, so
\* that no digit exceeds the integers of the model.
VALUE_MASK == 1048575

MAX_VALUE == 1048575

TRIP_INDEX_SHIFT == 0

ROUTE_ID_SHIFT == 20

STOP_INDEX_SHIFT == 40

\* BigInt(value) << shift, for a number below 2^40 and a shift that is a
\* multiple of 20 bits.
Shifted(value, shift) ==
    [i \in 1 .. shift \div 20 |-> 0] \o <<value % (VALUE_MASK + 1), value \div (VALUE_MASK + 1)>>

\* a | b on bigints, without leading zero digits.
BigOr(a, b) ==
    LET digit(x, i) == IF i <= Len(x) THEN x[i] ELSE 0
        ored == [i \in 1 .. Max(Len(a), Len(b)) |-> BitOr(digit(a, i), digit(b, i))]
        used == {i \in 1 .. Len(ored) : ored[i] # 0}
    IN  SubSeq(ored, 1, IF used = {} THEN 0 ELSE CHOOSE i \in used : \A j \in used : j <= i)

\* Number((id >> shift) & VALUE_MASK)
Extract(id, shift) ==
    IF shift \div 20 + 1 <= Len(id) THEN id[shift \div 20 + 1] % (VALUE_MASK + 1) ELSE 0

\* A validation that only rejects negative values.
validateValueNotNegative(value) == value >= 0

\* TRUE when validateValue returns, FALSE when it throws.
validateValue(value) == ~(value < 0 \/ value > MAX_VALUE)

\* An encoding with the route id at the shift of the trip index.
encodeWithoutRouteShift(stopIdx, routeId, tripIndex) ==
    IF ~(validateValue(stopIdx) /\ validateValue(routeId) /\ validateValue(tripIndex))
    THEN <<Throws>>
    ELSE BigOr(BigOr(Shifted(stopIdx, STOP_INDEX_SHIFT), Shifted(routeId, TRIP_INDEX_SHIFT)), Shifted(tripIndex, TRIP_INDEX_SHIFT))

\* <<Throws>>, which is the digits of no bigint, when a validation throws.
encode(stopIdx, routeId, tripIndex) ==
    IF ~(validateValue(stopIdx) /\ validateValue(routeId) /\ validateValue(tripIndex))
    THEN <<Throws>>
    ELSE BigOr(BigOr(Shifted(stopIdx, STOP_INDEX_SHIFT), Shifted(routeId, ROUTE_ID_SHIFT)), Shifted(tripIndex, TRIP_INDEX_SHIFT))

decode(id) ==
    <<Extract(id, STOP_INDEX_SHIFT), Extract(id, ROUTE_ID_SHIFT), Extract(id, TRIP_INDEX_SHIFT)>>

getStopIndex(id) == Extract(id, STOP_INDEX_SHIFT)

getRouteId(id) == Extract(id, ROUTE_ID_SHIFT)

getTripIndex(id) == Extract(id, TRIP_INDEX_SHIFT)

\* The components of the ids of the model: small ones, the largest of 20
\* bits, the first that does not fit and a negative one.
IdValues == {-1, 0, 1, 42, 524288, MAX_VALUE, MAX_VALUE + 1}

EncodeCalls ==
    {Called("encode", a) :
        a \in [stopIndex : IdValues, routeId : IdValues, tripIndex : IdValues]}

\* encode(stopIndex, routeId, tripIndex), then decode and the three
\* extractors on the id it returns.
EncodeDecode ==
    /\ call.op = "encode"
    /\ ~call.done
    /\ LET id == encode(call.args.stopIndex, call.args.routeId, call.args.tripIndex)
       IN  call' = [call EXCEPT
                      !.done = TRUE,
                      !.returned =
                          IF id = <<Throws>>
                          THEN [id |-> id, decoded |-> <<>>,
                                stopIndex |-> Undefined, routeId |-> Undefined,
                                tripIndex |-> Undefined]
                          ELSE [id |-> id, decoded |-> decode(id),
                                stopIndex |-> getStopIndex(id),
                                routeId |-> getRouteId(id),
                                tripIndex |-> getTripIndex(id)]]
    /\ UNCHANGED <<inputs, pc, round, routingState, markedStops, scanVars,
                   contVars, xfer, roundEndTarget, result, arrivalResult, suspended>>

\* The most {pickup, drop-off} pairs packed by one call.
MaxEntries == 3

\* The lists of pick-up types and of drop-off types of the same length.
PackCalls ==
    {Called("encodePickUpDropOffTypes", [pickUpTypes |-> [g \in 1 .. Len(pairs) |-> pairs[g][1]], dropOffTypes |-> [g \in 1 .. Len(pairs) |-> pairs[g][2]]]) :
        pairs \in UNION {[1 .. n -> (REGULAR .. MUST_COORDINATE_WITH_DRIVER) \X (REGULAR .. MUST_COORDINATE_WITH_DRIVER)] : n \in 0 .. MaxEntries}}

\* encodePickUpDropOffTypes(pickUpTypes, dropOffTypes), then every entry read
\* through the accessors of a route that holds the bytes: as one trip over
\* all the stops (entry g is stop g of trip 0) and as trips of one stop
\* (entry g is stop 0 of trip g).
PackAndRead ==
    /\ call.op = "encodePickUpDropOffTypes"
    /\ ~call.done
    /\ LET n == Len(call.args.pickUpTypes)
           encoded == encodePickUpDropOffTypes(call.args.pickUpTypes, call.args.dropOffTypes)
           route(stopsCount) ==
               [serviceRouteId |-> 0, stops |-> [i \in 1 .. stopsCount |-> i - 1],
                stopTimes |-> [i \in 1 .. 2 * n |-> 0],
                pickUpDropOffTypes |-> encoded]
       IN  call' = [call EXCEPT
                      !.done = TRUE,
                      !.returned =
                          [encoded |-> encoded,
                           oneTrip |-> [g \in 1 .. n |->
                               <<pickUpTypeFrom(route(n), g - 1, 0), dropOffTypeAt(route(n), g - 1, 0)>>],
                           oneStop |-> [g \in 1 .. n |->
                               <<pickUpTypeFrom(route(1), 0, g - 1), dropOffTypeAt(route(1), 0, g - 1)>>]]]
    /\ UNCHANGED <<inputs, pc, round, routingState, markedStops, scanVars,
                   contVars, xfer, roundEndTarget, result, arrivalResult, suspended>>

\* Reads of the routes of the builder at the stop ids and trip indexes
\* around their extent.
AccessorCalls ==
    {Called("accessors", a) :
        a \in [route : TestRoutes, stop : 0 .. 3, tripIndex : -1 .. MaxTrips + 1]}

\* The four accessors of Route called with a stop id and a trip index;
\* this.stopIndex(stopId) throws for a stop that is not on the route.
ReadRoute ==
    /\ call.op = "accessors"
    /\ ~call.done
    /\ LET route == call.args.route
           onRoute == Includes(route.stops, call.args.stop)
           stopIdx == stopIndex(route, call.args.stop)
           t == call.args.tripIndex
       IN  call' = [call EXCEPT
                      !.done = TRUE,
                      !.returned =
                          IF onRoute
                          THEN [arrivalAt |-> arrivalAt(route, stopIdx, t),
                                departureFrom |-> departureFrom(route, stopIdx, t),
                                pickUpTypeFrom |-> pickUpTypeFrom(route, stopIdx, t),
                                dropOffTypeAt |-> dropOffTypeAt(route, stopIdx, t)]
                          ELSE [arrivalAt |-> Throws, departureFrom |-> Throws,
                                pickUpTypeFrom |-> "Error", dropOffTypeAt |-> "Error"]]
    /\ UNCHANGED <<inputs, pc, round, routingState, markedStops, scanVars,
                   contVars, xfer, roundEndTarget, result, arrivalResult, suspended>>

\* tripId.ts: the bitwise operators of JavaScript work on 32 bits. A 32-bit
\* word is kept as its two 16-bit halves <<low, high>>.
TRIP_INDEX_BITS == 15

TRIP_INDEX_MASK == 32767

\* ToInt32 / ToUint32 of a number: its value modulo 2^32, as halves.
Int32Digits(n) == <<n % 65536, (n \div 65536) % 65536>>

\* The number a 32-bit word stands for as the signed result of <<, | and &.
Int32Value(word) ==
    IF word[2] >= 32768 THEN (word[2] - 65536) * 65536 + word[1]
    ELSE word[2] * 65536 + word[1]

\* (routeId << TRIP_INDEX_BITS) | tripIndex
encodeTripId(routeId, tripIndex) ==
    LET r == Int32Digits(routeId)
        t == Int32Digits(tripIndex)
        shifted == <<(r[1] * 2^TRIP_INDEX_BITS) % 65536,
                     (r[2] * 2^TRIP_INDEX_BITS + r[1] \div 2^(16 - TRIP_INDEX_BITS)) % 65536>>
    IN  Int32Value(<<BitOr(shifted[1], t[1]), BitOr(shifted[2], t[2])>>)

\* A decoding with the sign-propagating shift >> in place of >>>.
decodeTripIdSigned(tripId) ==
    <<tripId \div 2^TRIP_INDEX_BITS, Int32Digits(tripId)[1] % (TRIP_INDEX_MASK + 1)>>

\* [tripId >>> TRIP_INDEX_BITS, tripId & TRIP_INDEX_MASK]; the unsigned shift
\* gives a number that is not negative.
decodeTripId(tripId) ==
    LET word == Int32Digits(tripId)
        shifted == <<(word[1] \div 2^TRIP_INDEX_BITS + (word[2] % 2^TRIP_INDEX_BITS) * 2^(16 - TRIP_INDEX_BITS)) % 65536,
                     word[2] \div 2^TRIP_INDEX_BITS>>
    IN  <<shifted[2] * 65536 + shifted[1], Int32Value(<<word[1] % (TRIP_INDEX_MASK + 1), 0>>)>>

TripIdCalls ==
    {Called("encodeTripId", a) :
        a \in [routeId : {0, 1, 1000, 65535, 65536, 2^17 - 1},
               tripIndex : {0, 1, 500, 2^15 - 1}]}

\* encode(routeId, tripIndex) of tripId.ts, then decode of its result.
EncodeTripId ==
    /\ call.op = "encodeTripId"
    /\ ~call.done
    /\ LET tripId == encodeTripId(call.args.routeId, call.args.tripIndex)
       IN  call' = [call EXCEPT !.done = TRUE,
                                !.returned = [tripId |-> tripId, decoded |-> decodeTripId(tripId)]]
    /\ UNCHANGED <<inputs, pc, round, routingState, markedStops, scanVars,
                   contVars, xfer, roundEndTarget, result, arrivalResult, suspended>>

(* ------------------------------------------------------------------ *)
(* buildTripTransfers: the continuations of the feed                    *)
(* ------------------------------------------------------------------ *)

\* route.stopRouteIndices(stopId): every index at which the stop occurs on
\* the route, in increasing order; none for a stop that is not on the route.
stopRouteIndices(route, stop) ==
    SelectSeq([i \in 1 .. Len(route.stops) |-> i - 1],
              LAMBDA i : route.stops[i + 1] = stop)

\* bestFromStopIndex and bestToStopIndex undefined, bestTimeDifference
\* Infinity.
NoBestPair ==
    [fromStopIndex |-> Undefined, toStopIndex |-> Undefined,
     timeDifference |-> Undefined]

\* A comparison that takes every pair with a later departure.
ImprovesTimeDifferenceAlways(timeDifference, best) == TRUE

\* timeDifference < bestTimeDifference, which starts as Infinity.
ImprovesTimeDifference(timeDifference, best) ==
    best.fromStopIndex = Undefined \/ timeDifference < best.timeDifference

\* The pairs the two nested loops visit, in their order.
OccurrencePairs(fromStopIndices, toStopIndices) ==
    Flatten([i \in 1 .. Len(fromStopIndices) |->
                [j \in 1 .. Len(toStopIndices) |->
                    <<fromStopIndices[i], toStopIndices[j]>>]])

RECURSIVE BestOccurrencePair(_, _, _, _, _, _)
\* The body of the inner loop on each pair; best is the best pair so far.
BestOccurrencePair(pairs, fromRoute, fromTripIndex, toRoute, toTripIndex, best) ==
    IF pairs = <<>> THEN best
    ELSE LET originStopIndex == Head(pairs)[1]
             toStopIndex == Head(pairs)[2]
             fromArrivalTime == arrivalAt(fromRoute, originStopIndex, fromTripIndex)
             toDepartureTime == departureFrom(toRoute, toStopIndex, toTripIndex)
             timeDifference == toDepartureTime - fromArrivalTime
         IN  BestOccurrencePair(Tail(pairs), fromRoute, fromTripIndex, toRoute, toTripIndex,
                 IF toDepartureTime > fromArrivalTime
                    /\ ImprovesTimeDifference(timeDifference, best)
                 THEN [fromStopIndex |-> originStopIndex,
                       toStopIndex |-> toStopIndex,
                       timeDifference |-> timeDifference]
                 ELSE best)

\* NoBestPair stands for the undefined that is returned when no pair fits.
disambiguateTransferStopsIndices(fromStop, fromRoute, fromTripIndex, toStop, toRoute, toTripIndex) ==
    BestOccurrencePair(OccurrencePairs(stopRouteIndices(fromRoute, fromStop),
                                       stopRouteIndices(toRoute, toStop)),
                       fromRoute, fromTripIndex, toRoute, toTripIndex, NoBestPair)

\* tripsMapping.get of a trip id that is not in the mapping.
NoTripMapping == [routeId |-> Undefined, tripRouteIndex |-> Undefined]

RECURSIVE buildTripTransfersFrom(_, _, _, _, _)
\* The loop over gtfsTripTransfers; tripTransfers is the map of the
\* continuations built so far.
buildTripTransfersFrom(tripsMapping, gtfsTripTransfers, tt, activeStopIds, tripTransfers) ==
    IF gtfsTripTransfers = <<>> THEN tripTransfers
    ELSE LET gtfsContinuation == Head(gtfsTripTransfers)
             next(map) == buildTripTransfersFrom(tripsMapping, Tail(gtfsTripTransfers), tt, activeStopIds, map)
             fromTripMapping == tripsMapping[gtfsContinuation.fromTrip]
             toTripMapping == tripsMapping[gtfsContinuation.toTrip]
             known(routeId) == routeId + 1 \in DOMAIN tt.routesAdjacency
         IN  IF gtfsContinuation.fromStop \notin activeStopIds
                \/ gtfsContinuation.toStop \notin activeStopIds
             THEN next(tripTransfers)
             ELSE IF fromTripMapping = NoTripMapping \/ toTripMapping = NoTripMapping
             THEN next(tripTransfers)
             ELSE IF ~known(fromTripMapping.routeId) \/ ~known(toTripMapping.routeId)
             THEN next(tripTransfers)
             ELSE LET bestStopIndices ==
                          disambiguateTransferStopsIndices(
                              gtfsContinuation.fromStop,
                              getRoute(tt, fromTripMapping.routeId),
                              fromTripMapping.tripRouteIndex,
                              gtfsContinuation.toStop,
                              getRoute(tt, toTripMapping.routeId),
                              toTripMapping.tripRouteIndex)
                      tripStopId == encode(bestStopIndices.fromStopIndex,
                                           fromTripMapping.routeId,
                                           fromTripMapping.tripRouteIndex)
                      continuationBoarding ==
                          [stopIndex |-> bestStopIndices.toStopIndex,
                           routeId |-> toTripMapping.routeId,
                           tripIndex |-> toTripMapping.tripRouteIndex]
                      existingContinuations ==
                          IF \E i \in 1 .. Len(tripTransfers) : tripTransfers[i].key = tripStopId
                          THEN MapGet(tripTransfers, tripStopId)
                          ELSE <<>>
                  IN  IF bestStopIndices = NoBestPair THEN next(tripTransfers)
                      ELSE next(MapSet(tripTransfers, tripStopId,
                                       Append(existingContinuations, continuationBoarding)))

buildTripTransfers(tripsMapping, gtfsTripTransfers, tt, activeStopIds) ==
    buildTripTransfersFrom(tripsMapping, gtfsTripTransfers, tt, activeStopIds, <<>>)

\* Routes of one trip that come back to a stop, and one that does not.
LoopRoutes ==
    {finalizeRouteFromBuilder(
         [serviceRouteId |-> 0, stops |-> stops,
          trips |-> <<TestTrip(d, REGULAR, Len(stops))>>]) :
     stops \in {<<0, 1, 0>>, <<1, 0, 1>>, <<0, 1>>},
     d \in {d \in (0 .. 1) \X (0 .. MaxTripTime) : d[1] <= d[2]}}

\* The mappings of the trips of the feed: trip1 is on route 0 or unknown,
\* trip2 on route 1, on a route the timetable does not have, or unknown.
TripsMappings ==
    [trip1 : {NoTripMapping, [routeId |-> 0, tripRouteIndex |-> 0]},
     trip2 : {NoTripMapping, [routeId |-> 1, tripRouteIndex |-> 0],
              [routeId |-> 2, tripRouteIndex |-> 0]}]

BuildTripTransfersCalls ==
    {Called("buildTripTransfers", a) :
        a \in [fromRoute : LoopRoutes, toRoute : LoopRoutes,
               fromStop : {0, 1}, toStop : {0, 1},
               activeStopIds : {{0, 1}, {0}, {1}},
               tripsMapping : TripsMappings]}

\* buildTripTransfers for a feed with one continuation from trip1 to trip2.
BuildTripTransfers ==
    /\ call.op = "buildTripTransfers"
    /\ ~call.done
    /\ call' = [call EXCEPT
                  !.done = TRUE,
                  !.returned =
                      buildTripTransfers(
                          call.args.tripsMapping,
                          <<[fromStop |-> call.args.fromStop, fromTrip |-> "trip1",
                             toStop |-> call.args.toStop, toTrip |-> "trip2"]>>,
                          [routesAdjacency |-> <<call.args.fromRoute, call.args.toRoute>>],
                          call.args.activeStopIds)]
    /\ UNCHANGED <<inputs, pc, round, routingState, markedStops, scanVars,
                   contVars, xfer, roundEndTarget, result, arrivalResult, suspended>>

InitCalls ==
    /\ NoQueryRuns
    /\ \/ call \in FindEarliestTripCalls
       \/ call \in FindReachableRoutesCalls
       \/ call \in EncodeCalls
       \/ call \in PackCalls
       \/ call \in AccessorCalls
       \/ call \in TripIdCalls
       \/ call \in BuildTripTransfersCalls

NextCalls ==
    \/ FindEarliestTrip
    \/ FindReachableRoutes
    \/ EncodeDecode
    \/ PackAndRead
    \/ ReadRoute
    \/ EncodeTripId
    \/ BuildTripTransfers

SpecCalls == InitCalls /\ [][NextCalls]_vars

\* The departures at every stop are non-decreasing in trip index.
MonotoneDepartures(route) ==
    \A i \in 0 .. getNbStops(route) - 1, t \in 0 .. nbTrips(route) - 2 :
        departureFrom(route, i, t) <= departureFrom(route, i, t + 1)

\* The trips a linear scan accepts.
EligibleTrips(route, stopIdx, after, beforeTrip) ==
    {t \in 0 .. nbTrips(route) - 1 :
        /\ departureFrom(route, stopIdx, t) >= after
        /\ beforeTrip # Undefined => t < beforeTrip
        /\ pickUpTypeFrom(route, stopIdx, t) # "NOT_AVAILABLE"}

ReturnedBy(op) == call.op = op /\ call.done

\* C14 - On a route whose departures at every stop are non-decreasing in trip
\* index, findEarliestTrip(stop, after, beforeTrip) returns the smallest trip
\* index t with departureFrom(stop, t) >= after, t < beforeTrip (when given)
\* and a pick-up type other than NOT_AVAILABLE, and returns no value exactly
\* when there is no such trip.
C14_AgreesWithLinearScan ==
    (ReturnedBy("findEarliestTrip") /\ MonotoneDepartures(call.args.route)) =>
        LET eligible == EligibleTrips(call.args.route, call.args.stopIndex, call.args.after, call.args.beforeTrip)
        IN  call.returned = IF eligible = {} THEN Undefined ELSE SetMin(eligible)

\* C15 - Every trip index returned by findEarliestTrip, on any route of the
\* builder, is a trip of the route that departs from the stop at or after
\* `after`, can be boarded there and is before beforeTrip; for a route with no
\* trips and for beforeTrip = 0 nothing is returned.
C15_ReturnedTripIsSafe ==
    ReturnedBy("findEarliestTrip") =>
        /\ call.returned # Undefined =>
               call.returned \in EligibleTrips(call.args.route, call.args.stopIndex, call.args.after, call.args.beforeTrip)
        /\ (nbTrips(call.args.route) = 0 \/ call.args.beforeTrip = 0) =>
               call.returned = Undefined

\* The stops of fromStops on a route of the timetable, when the mode of the
\* route is asked for (an empty set of modes asks for every mode).
HopOnCandidates(tt, fromStops, transportModes, routeId) ==
    {s \in Range(fromStops) :
        /\ Includes(routesPassingThrough(tt, s), routeId)
        /\ \/ transportModes = {}
           \/ getServiceRouteInfo(tt, getRoute(tt, routeId)).type \in transportModes}

TestRouteIds(tt) == 0 .. Len(tt.routesAdjacency) - 1

\* C16 - findReachableRoutes(fromStops, modes) maps every route through a
\* stop of fromStops to the stop of fromStops with the smallest position on
\* the route, in whatever order fromStops is iterated and whatever the stop
\* ids and positions are.
C16_EarliestHopOn ==
    ReturnedBy("findReachableRoutes") =>
        \A r \in TestRouteIds(call.args.timetable) :
            LET route == getRoute(call.args.timetable, r)
                candidates == HopOnCandidates(call.args.timetable, call.args.fromStops, call.args.transportModes, r)
                hopOnStop == MapGet(call.returned, r)
            IN  candidates # {} =>
                    /\ hopOnStop \in candidates
                    /\ \A s \in candidates : stopIndex(route, hopOnStop) <= stopIndex(route, s)

\* C17 - findReachableRoutes returns exactly the routes through the stops
\* whose service-route type belongs to modes, every route through the stops
\* when modes is empty, and an empty map for an empty stop set or stops
\* without routes.
C17_ModesFilter ==
    ReturnedBy("findReachableRoutes") =>
        LET tt == call.args.timetable
            through == {r \in TestRouteIds(tt) : \E s \in Range(call.args.fromStops) : Includes(routesPassingThrough(tt, s), r)}
            allowed == {r \in through : call.args.transportModes = {} \/ getServiceRouteInfo(tt, getRoute(tt, r)).type \in call.args.transportModes}
        IN  /\ {call.returned[i].key : i \in 1 .. Len(call.returned)} = allowed
            /\ Len(call.returned) = Cardinality(allowed)

\* A call with modes that returned one route through the stops and left out
\* another one.
C17_Witness ==
    /\ ReturnedBy("findReachableRoutes")
    /\ call.args.transportModes # {}
    /\ Len(call.returned) = 1
    /\ \E r \in TestRouteIds(call.args.timetable) :
           /\ MapGet(call.returned, r) = Undefined
           /\ \E s \in Range(call.args.fromStops) : Includes(routesPassingThrough(call.args.timetable, s), r)

(* ------------------------------------------------------------------ *)
(* Properties of the relaxation of transfers                            *)
(* ------------------------------------------------------------------ *)

\* The transfer the next step of considerTransfers relaxes, when there is one.
RelaxingTransfer == pc = "transfers" /\ xfer.j >= 1

RelaxedSource == markedStops[xfer.i]

RelaxedTransfer == getTransfers(timetable, RelaxedSource)[xfer.j]

\* The dwell of a transfer as C19 states it.
StatedDwell(transfer) ==
    CASE transfer.minTransferTime # Undefined -> transfer.minTransferTime
      [] transfer.type = "IN_SEAT" -> 0
      [] OTHER -> query.options.minTransferTime

\* a' of C18: the arrival of the source in this round plus the dwell.
ArrivalAfterRelaxedTransfer ==
    graph[round + 1][RelaxedSource].arrival + StatedDwell(RelaxedTransfer)

\* The step writes the Transfer edge to the destination in this round, sets
\* its earliest arrival to {a', round} and marks it.
TransferIsWritten ==
    LET d == RelaxedTransfer.destination
        a == ArrivalAfterRelaxedTransfer
    IN  /\ IsTransfer(graph'[round + 1][d])
        /\ graph'[round + 1][d].arrival = a
        /\ graph'[round + 1][d].from = RelaxedSource
        /\ graph'[round + 1][d].to = d
        /\ earliestArrivals'[d] = Arrival(a, round)
        /\ Includes(xfer'.newlyMarkedStops, d)

\* The step leaves the edges, the earliest arrivals and the marks alone.
TransferIsDropped ==
    /\ graph' = graph
    /\ earliestArrivals' = earliestArrivals
    /\ xfer'.newlyMarkedStops = xfer.newlyMarkedStops

\* C18 - In round k, for a marked stop s and a transfer s -> d with
\* a' = graph[k][s].arrival + dwell, the Transfer edge is written to
\* graph[k][d], earliestArrivals[d] is set to {a', k} and d is marked exactly
\* when a' is strictly earlier than graph[k][d].arrival or d has no edge in
\* graph[k].
C18_RelaxAgainstRound ==
    [][RelaxingTransfer =>
          LET edge == graph[round + 1][RelaxedTransfer.destination]
          IN  IF edge.kind = "None" \/ ArrivalAfterRelaxedTransfer < edge.arrival
              THEN TransferIsWritten
              ELSE TransferIsDropped]_vars

\* C18 as it holds: the edge is written, the earliest arrival set and the
\* destination marked exactly when a' is strictly earlier than
\* earliestArrivals[d].arrival or d has no earliest arrival.
C18_RelaxAgainstEarliest ==
    [][RelaxingTransfer =>
          LET earliest == earliestArrivals[RelaxedTransfer.destination]
          IN  IF earliest = NoArrival \/ ArrivalAfterRelaxedTransfer < earliest.arrival
              THEN TransferIsWritten
              ELSE TransferIsDropped]_vars

\* A transfer is about to be relaxed whose destination has no edge in this
\* round but an earliest arrival from an earlier round that a' does not
\* improve, after another transfer of this round was written.
C18_Witness ==
    /\ RelaxingTransfer
    /\ round >= 1
    /\ graph[round + 1][RelaxedTransfer.destination].kind = "None"
    /\ earliestArrivals[RelaxedTransfer.destination] # NoArrival
    /\ ArrivalAfterRelaxedTransfer >= earliestArrivals[RelaxedTransfer.destination].arrival
    /\ \E d \in Stops : IsTransfer(graph[round + 1][d])

\* C19 - The time added to the arrival at the source of a transfer is the
\* minTransferTime of the transfer whenever it is set (a zero duration
\* included), else 0 for an IN_SEAT transfer, else the minTransferTime of the
\* query options.
C19_TransferDwell ==
    [][(RelaxingTransfer /\ graph' # graph) =>
          graph'[round + 1][RelaxedTransfer.destination].arrival =
              graph[round + 1][RelaxedSource].arrival + StatedDwell(RelaxedTransfer)]_vars

\* A Transfer edge written with a set minTransferTime of zero: it arrives when
\* its source was reached, the query asking for a longer transfer time.
C19_Witness ==
    /\ pc = "transfers"
    /\ query.options.minTransferTime > 0
    /\ \E d \in Stops :
           LET edge == graph[round + 1][d]
           IN  /\ IsTransfer(edge)
               /\ edge.minTransferTime = 0
               /\ edge.arrival = graph[round + 1][edge.from].arrival

\* The triples with every component in [0, 2^20).
ValidTriples == [stopIndex : IdValues \cap (0 .. MAX_VALUE), routeId : IdValues \cap (0 .. MAX_VALUE), tripIndex : IdValues \cap (0 .. MAX_VALUE)]

\* C20 - For every (stopIndex, routeId, tripIndex) with each component in
\* [0, 2^20), decode(encode(s, r, t)) = (s, r, t), the three extractors
\* return s, r and t, and distinct triples encode to distinct ids.
C20_EncodeRoundTrip ==
    (ReturnedBy("encode") /\ call.args \in ValidTriples) =>
        /\ call.returned.id # <<Throws>>
        /\ call.returned.decoded = <<call.args.stopIndex, call.args.routeId, call.args.tripIndex>>
        /\ call.returned.stopIndex = call.args.stopIndex
        /\ call.returned.routeId = call.args.routeId
        /\ call.returned.tripIndex = call.args.tripIndex
        /\ \A other \in ValidTriples \ {call.args} :
               encode(other.stopIndex, other.routeId, other.tripIndex) # call.returned.id

\* An id was made of three different components, the largest of 20 bits
\* among them, and decoded.
C20_Witness ==
    /\ ReturnedBy("encode")
    /\ call.returned.id # <<Throws>>
    /\ call.args.stopIndex = 42
    /\ call.args.routeId = MAX_VALUE
    /\ call.args.tripIndex = 524288
    /\ call.returned.decoded = <<42, MAX_VALUE, 524288>>

\* C21 - Encoding fails with an error whenever one of the three components is
\* outside [0, 2^20): no component out of range is truncated into an id.
C21_EncodeRejectsOutOfRange ==
    (ReturnedBy("encode") /\ call.args \notin ValidTriples) =>
        call.returned.id = <<Throws>>

\* encode threw for a trip index of 2^20 with the other components in range,
\* one of them the largest of 20 bits.
C21_Witness ==
    /\ ReturnedBy("encode")
    /\ call.args.stopIndex = MAX_VALUE
    /\ call.args.routeId = 0
    /\ call.args.tripIndex = MAX_VALUE + 1
    /\ call.returned.id = <<Throws>>

\* C22 - Packing a list of {pickup, drop-off} pairs of any length with
\* encodePickUpDropOffTypes and reading entry g = trip * S + stop back through
\* pickUpTypeFrom and dropOffTypeAt yields the pick-up and drop-off type of
\* entry g, in two bytes for every three or four entries.
C22_PackRoundTrip ==
    ReturnedBy("encodePickUpDropOffTypes") =>
        LET n == Len(call.args.pickUpTypes)
            original == [g \in 1 .. n |->
                            <<toPickupDropOffType(call.args.pickUpTypes[g]),
                              toPickupDropOffType(call.args.dropOffTypes[g])>>]
        IN  /\ call.returned.oneTrip = original
            /\ call.returned.oneStop = original
            /\ Len(call.returned.encoded) = (n + 1) \div 2

\* Three entries were packed, the two of the first byte with four different
\* types, and read back.
C22_Witness ==
    /\ ReturnedBy("encodePickUpDropOffTypes")
    /\ Len(call.args.pickUpTypes) = 3
    /\ call.returned.oneStop[1] = <<"MUST_COORDINATE_WITH_DRIVER", "NOT_AVAILABLE">>
    /\ call.returned.oneStop[2] = <<"REGULAR", "MUST_PHONE_AGENCY">>
    /\ call.returned.oneTrip[3] = <<"NOT_AVAILABLE", "MUST_COORDINATE_WITH_DRIVER">>

\* The read is outside the extent of the route.
OutOfExtent ==
    \/ ~Includes(call.args.route.stops, call.args.stop)
    \/ call.args.tripIndex \notin 0 .. nbTrips(call.args.route) - 1

\* C23 - arrivalAt, departureFrom, pickUpTypeFrom and dropOffTypeAt raise an
\* error for every stop outside the stop sequence of the route and for every
\* trip index outside [0, trip count), whatever the numbers of stops and
\* trips: no value of another slot or of padding bits is returned.
C23_AccessorsFailOutOfExtent ==
    (ReturnedBy("accessors") /\ OutOfExtent) =>
        /\ call.returned.arrivalAt = Throws
        /\ call.returned.departureFrom = Throws
        /\ call.returned.pickUpTypeFrom = "Error"
        /\ call.returned.dropOffTypeAt = "Error"

\* C24 - For every routeId in [0, 2^17) and tripIndex in [0, 2^15),
\* decode(encode(routeId, tripIndex)) = (routeId, tripIndex) under the 32-bit
\* operators, also when the shifted route id leaves the signed 32-bit range.
C24_TripIdRoundTrip ==
    ReturnedBy("encodeTripId") =>
        call.returned.decoded = <<call.args.routeId, call.args.tripIndex>>

\* The largest route id and trip index made a negative trip id, which was
\* decoded.
C24_Witness ==
    /\ ReturnedBy("encodeTripId")
    /\ call.args.routeId = 2^17 - 1
    /\ call.args.tripIndex = 2^15 - 1
    /\ call.returned.tripId = -1
    /\ call.returned.decoded = <<2^17 - 1, 2^15 - 1>>


(* ------------------------------------------------------------------ *)
(* Two queries interleaved on one router                                *)
(* ------------------------------------------------------------------ *)

\* What route() and the Result keep for one query: the query, the position
\* in route(), its locals and the routing state the Result is built on.
QueryState ==
    [query |-> query, pc |-> pc, round |-> round,
     earliestArrivals |-> earliestArrivals, graph |-> graph,
     destinations |-> destinations, markedStops |-> markedStops,
     reachableRoutes |-> reachableRoutes, routeCursor |-> routeCursor,
     scan |-> scan, continuations |-> continuations,
     contCursor |-> contCursor,
     stopsFromContinuations |-> stopsFromContinuations, xfer |-> xfer,
     roundEndTarget |-> roundEndTarget, result |-> result,
     arrivalResult |-> arrivalResult]

\* The state of a query on which route() has not started.
NewQuery(q) ==
    [query |-> q, pc |-> "start", round |-> 0,
     earliestArrivals |-> [s \in Stops |-> NoArrival], graph |-> <<>>,
     destinations |-> <<>>, markedStops |-> <<>>,
     reachableRoutes |-> <<>>, routeCursor |-> 1, scan |-> NoScan,
     continuations |-> <<>>, contCursor |-> 1,
     stopsFromContinuations |-> <<>>, xfer |-> NoTransferLoop,
     roundEndTarget |-> <<>>, result |-> NoResult,
     arrivalResult |-> NoArrivalResult]

\* A router that keeps the earliest arrivals in a field of its own, which
\* the queries in progress share.
ResumedOnSharedArrivals(saved) == [saved EXCEPT !.earliestArrivals = earliestArrivals]

\* The state a query goes on from is the one it stopped at: the routing
\* state and the marked stops are locals of route(), and the router has no
\* field but the timetable and the stops index.
Resumed(saved) == saved

\* The query in the state s becomes the running one.
Resume(s) ==
    /\ query' = s.query
    /\ pc' = s.pc
    /\ round' = s.round
    /\ earliestArrivals' = s.earliestArrivals
    /\ graph' = s.graph
    /\ destinations' = s.destinations
    /\ markedStops' = s.markedStops
    /\ reachableRoutes' = s.reachableRoutes
    /\ routeCursor' = s.routeCursor
    /\ scan' = s.scan
    /\ continuations' = s.continuations
    /\ contCursor' = s.contCursor
    /\ stopsFromContinuations' = s.stopsFromContinuations
    /\ xfer' = s.xfer
    /\ roundEndTarget' = s.roundEndTarget
    /\ result' = s.result
    /\ arrivalResult' = s.arrivalResult

\* The running query stops where it is and the other one goes on.
Switch ==
    /\ suspended.mode = "interleaved"
    /\ suspended.state.pc # "done"
    /\ suspended' = [mode |-> "interleaved", state |-> QueryState]
    /\ Resume(Resumed(suspended.state))
    /\ UNCHANGED <<timetable, stopsIndex, call>>

\* Both queries have returned: one of them is asked again, of the same
\* router, with no other query in progress.
RunAlone ==
    /\ suspended.mode = "interleaved"
    /\ pc = "done"
    /\ suspended.state.pc = "done"
    /\ \E s \in {QueryState, suspended.state} :
           /\ suspended' = [mode |-> "alone", state |-> s]
           /\ Resume(NewQuery(s.query))
    /\ UNCHANGED <<timetable, stopsIndex, call>>

\* The timetables two queries are interleaved on, as <<trips of route 1,
\* feature, transfer plan>>: the plain one, one with an in-seat continuation,
\* one with a cycle of continuations, and one with transfers.
SharedTimetables == {<<1, 1, 1>>, <<3, 4, 1>>, <<3, 8, 1>>, <<1, 1, 2>>}

\* The queries that are interleaved.
InterleavedQueries ==
    {MakeQuery(from, <<3>>, 0, maxTransfers) :
        from \in {0, 1}, maxTransfers \in 0 .. MaxMaxTransfers}

InitTwoQueries ==
    /\ \E t \in SharedTimetables :
           timetable = MakeTimetable(Shapes[2], TripPlans[1], TripPlans[t[1]],
                                     Features[t[2]], TransferPlans[t[3]])
    /\ stopsIndex = StopIndexes[1]
    /\ \E q \in InterleavedQueries : query = q
    /\ \E q \in InterleavedQueries :
           suspended = [mode |-> "interleaved", state |-> NewQuery(q)]
    /\ pc = "start"
    /\ round = 0
    /\ earliestArrivals = [s \in Stops |-> NoArrival]
    /\ graph = <<>>
    /\ destinations = <<>>
    /\ markedStops = <<>>
    /\ reachableRoutes = <<>>
    /\ routeCursor = 1
    /\ scan = NoScan
    /\ continuations = <<>>
    /\ contCursor = 1
    /\ stopsFromContinuations = <<>>
    /\ xfer = NoTransferLoop
    /\ roundEndTarget = <<>>
    /\ result = NoResult
    /\ arrivalResult = NoArrivalResult
    /\ call = NoCall

NextTwoQueries ==
    \/ InitRoutingState
    \/ TransferSource
    \/ RelaxTransfer
    \/ EndConsiderTransfers
    \/ BeginRound
    \/ Finish
    \/ StartScan
    \/ ScanStop
    \/ EndRouteScan
    \/ RoutesDone
    \/ StartContinuationScan
    \/ EndContinuationScan
    \/ ContinuationBatchDone
    \/ ContinuationsDone
    \/ Switch
    \/ RunAlone

SpecTwoQueries == InitTwoQueries /\ [][NextTwoQueries]_vars

\* The interleaved run of the query that is now running alone.
Interleaved == suspended.state

\* The query asked alone has returned.
AloneReturned == suspended.mode = "alone" /\ pc = "done"

\* The Result of a query state: the query and the routing state.
ResultOf(s) == <<s.query, s.earliestArrivals, s.graph, s.destinations>>

OvertakingTrips == << <<0, 3>>, <<1, 1>> >>

\* The transfers between the first two stops of route 1: none, one of the
\* minimum transfer time of the query, one of three minutes, and one in each
\* direction that takes no time, with one back to the first stop of route 0.
OvertakingTransfers ==
    <<  <<>>,
        << Transfer(1, 2, "RECOMMENDED", Undefined) >>,
        << Transfer(1, 2, "REQUIRES_MINIMAL_TIME", 3) >>,
        << Transfer(1, 2, "REQUIRES_MINIMAL_TIME", 0),
           Transfer(2, 1, "REQUIRES_MINIMAL_TIME", 0),
           Transfer(2, 0, "RECOMMENDED", Undefined) >>  >>

\* The timetable of routes 0 -> 1 and 1 -> 2 -> 3 with the overtaking trips
\* on the second; restricted: the first trip of the second route takes no
\* passengers at stop 2 (a pickup_type of one stop time of the feed).
OvertakingTimetable(feature, transfers, restricted) ==
    LET plain == MakeTimetable(Shapes[2], TripPlans[1], OvertakingTrips, feature, transfers)
        builder == Builder(1, Shapes[2][2], OvertakingTrips, Undefined, Undefined)
        trips == [builder.trips EXCEPT ![1] = BuilderTrip(OvertakingTrips[1], Len(builder.stops), 1, Undefined)]
    IN  IF restricted
        THEN [plain EXCEPT !.routesAdjacency[2] = finalizeRouteFromBuilder([builder EXCEPT !.trips = trips])]
        ELSE plain

\* The timetable of routes 1 -> 0 -> 2 and 2 -> 3 where the trip of the
\* first continues in seat as the trip of the second and a transfer from
\* stop 0 reaches stop 2 before the vehicle (a dwell of one minute) or with
\* it (the minimum transfer time of the query).
ShortcutTimetable(quicker) ==
    MakeTimetable(Shapes[3], TripPlans[1], << <<4, 1>> >>, Features[4],
                  << IF quicker THEN Transfer(0, 2, "REQUIRES_MINIMAL_TIME", 1)
                                ELSE Transfer(0, 2, "RECOMMENDED", Undefined) >>)

\* The timetable of routes 0 -> 1 and 1 -> 2 -> 3 whose continuation map has
\* a cycle: the trip of the first route continues at stop 1 as the trip of
\* the second, which continues at stop 3 as the trip of the first from stop
\* 0. The constructor takes the map as it is given.
CyclicTimetable ==
    [MakeTimetable(Shapes[2], TripPlans[1], << <<3, 1>> >>, Features[1], <<>>)
        EXCEPT !.tripContinuations =
            [k \in {<<1, 0, 0>>, <<2, 1, 0>>} |->
                <<[routeId |-> 1 - k[2], hopOnStopIndex |-> 0, tripIndex |-> 0]>>]]

InitOvertaking ==
    /\ \/ /\ \/ \E f \in {1, 5}, t \in 1 .. Len(OvertakingTransfers), restricted \in BOOLEAN :
                    timetable = OvertakingTimetable(Features[f], OvertakingTransfers[t], restricted)
             \/ \E quicker \in BOOLEAN : timetable = ShortcutTimetable(quicker)
             \/ timetable = CyclicTimetable
          /\ stopsIndex = StopIndexes[1]
       \/ /\ timetable = OvertakingTimetable(Features[1], OvertakingTransfers[Len(OvertakingTransfers)], FALSE)
          /\ stopsIndex = StopIndexes[2]
    /\ \E from \in {0, 1, 2}, departureTime \in {0, 2, 5}, maxTransfers \in 0 .. MaxMaxTransfers :
           query = MakeQuery(from, <<3>>, departureTime, maxTransfers)
    /\ pc = "start"
    /\ round = 0
    /\ earliestArrivals = [s \in Stops |-> NoArrival]
    /\ graph = <<>>
    /\ destinations = <<>>
    /\ markedStops = <<>>
    /\ reachableRoutes = <<>>
    /\ routeCursor = 1
    /\ scan = NoScan
    /\ continuations = <<>>
    /\ contCursor = 1
    /\ stopsFromContinuations = <<>>
    /\ xfer = NoTransferLoop
    /\ roundEndTarget = <<>>
    /\ result = NoResult
    /\ arrivalResult = NoArrivalResult
    /\ call = NoCall
    /\ suspended = NoSuspended

SpecOvertaking == InitOvertaking /\ [][Next]_vars

\* route() is sequential code: until it returns, a step that can be taken
\* is taken.
FairSpecOvertaking == SpecOvertaking /\ WF_vars(pc # "done" /\ Next)

(* ------------------------------------------------------------------ *)
(* The active trip of a route scan                                      *)
(* ------------------------------------------------------------------ *)

\* An iteration of the stop loop of scanRoute, on a reachable route (not on a
\* continuation).
BaseScanStep == pc = "scan" /\ pc' = "scan" /\ scan.tripContinuation = <<>>

\* The stop of the iteration.
ScannedStop == stopId(getRoute(timetable, scan.routeId), scan.currentStopIndex)

\* The iteration boards trip t: it was found at the current stop from the
\* arrival of the previous round there, which is no later than the departure
\* of the trip it replaces, whose index is larger.
BoardsFromPreviousRound(t) ==
    LET route == getRoute(timetable, scan.routeId)
        before == graph[round][ScannedStop]
        active == scan.activeTrip.tripIndex
    IN  /\ before.kind # "None"
        /\ scan'.activeTrip.hopOnStopIndex = scan.currentStopIndex
        /\ t = findEarliestTrip(route, scan.currentStopIndex, before.arrival, active)
        /\ active # Undefined =>
               /\ t < active
               /\ before.arrival <= departureFrom(route, scan.currentStopIndex, active)

\* C26: in a scan of a reachable route in round k the active trip changes
\* only by boarding, at the current stop, a trip of a strictly smaller index
\* than the active one, found from the arrival that graph[k-1] holds at that
\* stop, which is no later than the departure of the active trip there; the
\* arrival that the same iteration writes at the stop in round k plays no part.
C26_UpdateThenBoard == [][(BaseScanStep /\ scan'.activeTrip # scan.activeTrip) => BoardsFromPreviousRound(scan'.activeTrip.tripIndex)]_vars

\* The scan has just replaced its active trip by one of a smaller index, at a
\* stop where it had written the arrival of the replaced trip in this round.
C26_Witness ==
    /\ pc = "scan"
    /\ scan.tripContinuation = <<>>
    /\ scan.currentStopIndex >= 1
    /\ scan.activeTrip.hopOnStopIndex = scan.currentStopIndex - 1
    /\ LET route == getRoute(timetable, scan.routeId)
           written == graph[round + 1][stopId(route, scan.currentStopIndex - 1)]
       IN  /\ IsVehicle(written)
           /\ written.routeId = scan.routeId
           /\ written.to = scan.currentStopIndex - 1
           /\ written.tripIndex > scan.activeTrip.tripIndex


(* ------------------------------------------------------------------ *)
(* Feasibility of the journeys of the graph                             *)
(* ------------------------------------------------------------------ *)

\* The Vehicle edge e of round k was boarded at a stop that round k - 1
\* reached no later than the trip leaves it.
BoardedAfterArrival(k, e) ==
    LET route == getRoute(timetable, e.routeId)
        before == graph[k][stopId(route, e.from)]
    IN  /\ before.kind # "None"
        /\ departureFrom(route, e.from, e.tripIndex) >= before.arrival

\* The Transfer edge e of round k arrives no earlier than the arrival of
\* round k at its source stop plus the dwell.
TransferredAfterArrival(k, e) ==
    LET source == graph[k + 1][e.from]
    IN  /\ source.kind # "None"
        /\ e.arrival >= source.arrival + StatedDwell(e)

\* C27: in the graph that route() returns, every Vehicle edge of a round
\* k >= 1 that was boarded (it continues no other edge) leaves its boarding
\* stop no earlier than the arrival of graph[k-1] there, and every Transfer
\* edge of a round k arrives no earlier than the arrival of graph[k] at its
\* source stop plus the dwell.
C27_JourneyFeasibility ==
    pc = "done" =>
        \A k \in 0 .. Len(graph) - 1, s \in Stops :
            LET e == graph[k + 1][s]
            IN  /\ (IsVehicle(e) /\ e.continuationOf = <<>>) => BoardedAfterArrival(k, e)
                /\ IsTransfer(e) => TransferredAfterArrival(k, e)


(* ------------------------------------------------------------------ *)
(* The back-references of continuation edges                            *)
(* ------------------------------------------------------------------ *)

\* The stop at which the Vehicle edge e alights.
AlightStop(e) == stopId(getRoute(timetable, e.routeId), e.to)

\* The edge that the Vehicle edge e continues.
ContinuedBy(e) == e.continuationOf[1]

\* The edges of round k that continue another edge.
ContinuationEdges(k) ==
    {e \in {graph[k + 1][s] : s \in Stops} : IsVehicle(e) /\ e.continuationOf # <<>>}

\* C28: when route() returns, the edge p that a Vehicle edge of graph[k]
\* continues is a Vehicle edge and is the edge that graph[k] holds at the
\* stop where p alights.
C28_BackReferenceIsStored ==
    pc = "done" =>
        \A k \in 0 .. Len(graph) - 1 : \A e \in ContinuationEdges(k) :
            /\ IsVehicle(ContinuedBy(e))
            /\ graph[k + 1][AlightStop(ContinuedBy(e))] = ContinuedBy(e)


\* C28, as the code keeps it: the edge p that a Vehicle edge of graph[k]
\* continues is a Vehicle edge, and graph[k] holds at the stop where p alights
\* either p itself or an edge written after it with a strictly earlier
\* arrival. The back-reference is the edge p, not the entry of graph[k].
C28_BackReferenceOrEarlier ==
    \A k \in 0 .. Len(graph) - 1 : \A e \in ContinuationEdges(k) :
        LET p == ContinuedBy(e)
            stored == graph[k + 1][AlightStop(p)]
        IN  /\ IsVehicle(p)
            /\ stored = p \/ (stored.kind # "None" /\ stored.arrival < p.arrival)

\* route() has returned a graph in which a transfer has replaced the edge
\* that a continuation edge of the same round refers to.
C28_Witness ==
    /\ pc = "done"
    /\ \E k \in 0 .. Len(graph) - 1 : \E e \in ContinuationEdges(k) :
           IsTransfer(graph[k + 1][AlightStop(ContinuedBy(e))])


(* ------------------------------------------------------------------ *)
(* The end of the round loop                                            *)
(* ------------------------------------------------------------------ *)

\* The stops for which graph[k] holds an edge.
StopsWithEdge(k) == {s \in Stops : graph[k + 1][s].kind # "None"}

\* The stops that are marked.
MarkedSet == {markedStops[i] : i \in 1 .. Len(markedStops)}

\* C29: at the end of a round the marked stops are the stops with an edge in
\* the graph of the round; route() returns after a round k >= 1 that is the
\* first round to mark nothing (its graph is empty and is the last of the
\* graph) or is round maxTransfers + 1, whichever comes first.
C29_RoundLoopEnds ==
    /\ RoundIsOver => (Len(graph) = round + 1 /\ MarkedSet = StopsWithEdge(round))
    /\ pc = "done" =>
           /\ round >= 1
           /\ round <= query.options.maxTransfers + 1
           /\ round = query.options.maxTransfers + 1 \/ StopsWithEdge(round) = {}
           /\ \A k \in 1 .. round - 1 : StopsWithEdge(k) # {}

\* route() has returned before round maxTransfers + 1 because the last round
\* marked nothing, after a round that had marked a stop.
C29_Witness ==
    /\ pc = "done"
    /\ round < query.options.maxTransfers + 1
    /\ StopsWithEdge(round) = {}
    /\ MarkedSet = {}
    /\ StopsWithEdge(round - 1) # {}


(* ------------------------------------------------------------------ *)
(* The in-seat continuation loop                                        *)
(* ------------------------------------------------------------------ *)

\* An iteration of the stop loop of a continuation scan marks a stop only
\* when it strictly improves the earliest arrival of the stop.
ContinuationScanMarksImprovedStops ==
    (pc = "scan" /\ pc' = "scan" /\ scan.tripContinuation # <<>>) =>
        \A s \in Range(scan'.newlyMarkedStops) \ Range(scan.newlyMarkedStops) :
            earliestArrivals'[s].arrival < earliestArrivals[s].arrival

\* The stops of a batch are the stops its continuation scans have marked.
BatchCollectsMarkedStops ==
    (pc = "scan" /\ pc' = "conts" /\ scan.tripContinuation # <<>>) =>
        Range(stopsFromContinuations') = Range(stopsFromContinuations) \cup Range(scan.newlyMarkedStops)

\* The continuations of the next pass of the while loop come from the edges
\* of the stops of the batch that has just ended.
NextBatchFromImprovedStops ==
    (pc = "conts" /\ pc' = "conts" /\ contCursor > Len(continuations)) =>
        \A i \in 1 .. Len(continuations') :
            \E s \in Range(stopsFromContinuations) :
                continuations'[i].previousEdge = graph[round + 1][s]

\* C30: the continuation loop of a round ends, also on a continuation map
\* with a cycle between trips, and each pass examines only the stops whose
\* earliest arrival the continuation scans of the previous pass have strictly
\* improved.
C30_ContinuationLoopEnds ==
    /\ [][ContinuationScanMarksImprovedStops /\ BatchCollectsMarkedStops /\ NextBatchFromImprovedStops]_vars
    /\ (pc = "conts") ~> (pc = "transfers")

\* A pass of the loop is about to scan a continuation that leads back to the
\* route on which the chain of continuations started.
C30_Witness ==
    /\ pc = "conts"
    /\ \E i \in 1 .. Len(continuations) :
           LET c == continuations[i]
           IN  /\ c.previousEdge.continuationOf # <<>>
               /\ c.routeId = c.previousEdge.continuationOf[1].routeId


(* ------------------------------------------------------------------ *)
(* The edges that backtracking reads                                    *)
(* ------------------------------------------------------------------ *)

\* The stop from which backtracking goes on after the edge e: the boarding
\* stop of the first edge of the chain of a Vehicle edge, the source of a
\* Transfer edge.
PreviousStop(e) ==
    IF IsVehicle(e) THEN buildVehicleLeg(ChainedEdges(e)).from ELSE e.from

\* The round in which backtracking goes on after the edge e of round k.
PreviousRound(k, e) == IF IsVehicle(e) THEN k - 1 ELSE k

\* C31: in the graph that route() returns every stop with an earliest arrival
\* of a round k has an edge in graph[k], and backtracking from a Vehicle or
\* Transfer edge of a round k finds an edge where it goes on (graph[k-1] at
\* the boarding stop of the chain, graph[k] at the source of the transfer);
\* no call of bestRoute raises the missing-edge error.
C31_NoMissingEdge ==
    pc = "done" =>
        /\ \A s \in Stops :
               earliestArrivals[s] # NoArrival =>
                   graph[earliestArrivals[s].legNumber + 1][s].kind # "None"
        /\ \A k \in 0 .. Len(graph) - 1, s \in Stops :
               LET e == graph[k + 1][s]
               IN  (IsVehicle(e) \/ IsTransfer(e)) =>
                       /\ PreviousRound(k, e) >= 0
                       /\ graph[PreviousRound(k, e) + 1][PreviousStop(e)].kind # "None"
        /\ result.status # "error"

\* bestRoute has backtracked through a transfer and at least one more edge
\* and has returned the route.
C31_Witness ==
    /\ pc = "done"
    /\ result.status = "route"
    /\ Len(result.legs) >= 2
    /\ \E i \in 1 .. Len(result.legs) : result.legs[i].kind = "Transfer"


(* ------------------------------------------------------------------ *)
(* The end of backtracking                                              *)
(* ------------------------------------------------------------------ *)

RECURSIVE LeavesTransfers(_, _, _)
\* Following the Transfer edges of round k back from stop s comes, within
\* the given number of steps, to a stop whose edge is not a Transfer.
LeavesTransfers(k, s, steps) ==
    IF ~IsTransfer(graph[k + 1][s]) THEN TRUE
    ELSE IF steps = 0 THEN FALSE
    ELSE LeavesTransfers(k, graph[k + 1][s].from, steps - 1)

\* C32: in the graph that route() returns the Transfer edges of a round form
\* no cycle (walking them back from any stop leaves them within NumStops
\* steps), so no call of bestRoute loops for ever.
C32_BacktrackingEnds ==
    pc = "done" =>
        /\ \A k \in 0 .. Len(graph) - 1, s \in Stops : LeavesTransfers(k, s, NumStops)
        /\ result.status # "diverges"

\* bestRoute has returned a route through a Transfer edge between two stops
\* that the timetable joins by transfers in both directions.
C32_Witness ==
    /\ pc = "done"
    /\ result.status = "route"
    /\ \E i \in 1 .. Len(result.legs) :
           LET leg == result.legs[i]
           IN  /\ leg.kind = "Transfer"
               /\ \E t \in Range(getTransfers(timetable, leg.to)) : t.destination = leg.from


(* ------------------------------------------------------------------ *)
(* C33: the state after the initialisation                              *)
(* ------------------------------------------------------------------ *)

\* The initialisation and the relaxation of the round-0 transfers are over.
InitialisationDone == pc = "roundEnd" /\ round = 0

\* The stops that have an edge in graph[0].
StopsOfInitialRound == {s \in Stops : graph[1][s].kind # "None"}

\* C33: after the initialisation and the round-0 transfer relaxation,
\* graph[0] holds an Origin edge with arrival = departureTime for every stop
\* equivalent to `from`, holds only Origin and Transfer edges, every stop of
\* graph[0] has an earliestArrivals entry with legNumber 0, and exactly the
\* stops of graph[0] are marked for round 1.
C33_InitialState ==
    InitialisationDone =>
        /\ \A o \in Range(equivalentStops(stopsIndex, query.from)) :
               graph[1][o] = OriginNode(query.departureTime)
        /\ \A s \in StopsOfInitialRound :
               /\ graph[1][s].kind \in {"Origin", "Transfer"}
               /\ earliestArrivals[s] # NoArrival
               /\ earliestArrivals[s].legNumber = 0
        /\ Range(markedStops) = StopsOfInitialRound

\* The initialisation is over for a query with several origins, one of which
\* has a transfer to another origin and one that has reached another stop.
C33_Witness ==
    /\ InitialisationDone
    /\ Len(equivalentStops(stopsIndex, query.from)) >= 2
    /\ \E s \in Stops : IsTransfer(graph[1][s])
    /\ \E s \in Stops : \E t \in Range(getTransfers(timetable, s)) :
           /\ graph[1][s].kind # "None"
           /\ Includes(equivalentStops(stopsIndex, query.from), t.destination)


(* ------------------------------------------------------------------ *)
(* C34: the trip of a continuation scan                                 *)
(* ------------------------------------------------------------------ *)

\* An iteration of the stop loop of scanRoute on a continuation.
ContinuationScanStep == pc = "scan" /\ pc' = "scan" /\ scan.tripContinuation # <<>>

\* The edge is the one whose trip continues as the continuation.
Triggers(edge, continuation) ==
    /\ IsVehicle(edge)
    /\ \E trip \in Range(getContinuousTrips(timetable, edge.to, edge.routeId, edge.tripIndex)) :
           /\ trip.routeId = continuation.routeId
           /\ trip.hopOnStopIndex = continuation.hopOnStopIndex
           /\ trip.tripIndex = continuation.tripIndex

\* C34: in a continuation scan for (R', h', t') the chosen trip is never
\* changed: every edge the scan emits has route R', trip index t', from = h'
\* and continuationOf = the edge that triggered the continuation, and the
\* scan boards no other trip at any stop.
C34_ContinuationKeepsTrip ==
    [][ContinuationScanStep =>
          LET continuation == scan.tripContinuation[1]
          IN  /\ Triggers(continuation.previousEdge, continuation)
              /\ scan.routeId = continuation.routeId
              /\ scan.activeTrip = [tripIndex |-> continuation.tripIndex,
                                    hopOnStopIndex |-> continuation.hopOnStopIndex]
              /\ scan'.activeTrip = scan.activeTrip
              /\ scan'.routeId = scan.routeId
              /\ scan'.tripContinuation = scan.tripContinuation
              /\ \A s \in Stops :
                     graph'[round + 1][s] # graph[round + 1][s] =>
                         /\ graph'[round + 1][s] =
                                VehicleEdge(graph'[round + 1][s].arrival,
                                            continuation.routeId,
                                            continuation.tripIndex,
                                            continuation.hopOnStopIndex,
                                            scan.currentStopIndex,
                                            <<continuation.previousEdge>>)
                         /\ s = stopId(getRoute(timetable, continuation.routeId), scan.currentStopIndex)]_vars

\* A continuation scan of a trip that is not the first of its route has
\* written an edge and has gone on to a stop reached in the previous round.
C34_Witness ==
    /\ pc = "scan"
    /\ scan.tripContinuation # <<>>
    /\ scan.activeTrip.tripIndex >= 1
    /\ scan.newlyMarkedStops # <<>>
    /\ \E s \in Stops : graph[round + 1][s].continuationOf # <<>>


(* ------------------------------------------------------------------ *)
(* C35: the legs of a route as a path                                   *)
(* ------------------------------------------------------------------ *)

\* The destination that the bestRoute call of the recorded result chose.
ChosenDestination ==
    LET destinationList == IF result.to # Undefined THEN <<result.to>> ELSE query.to
    IN  FastestFrom(FlatMapEquivalent(stopsIndex, destinationList),
                    [destination |-> Undefined, time |-> NoArrival]).destination

\* The stops that the legs pass through, from the start of the first leg to
\* the end of the last; the chosen destination alone when there is no leg.
PathEnds(legs, destination) ==
    IF legs = <<>> THEN [first |-> destination, last |-> destination]
    ELSE [first |-> legs[1].from, last |-> legs[Len(legs)].to]

\* C35: the legs of every reconstructed route form a connected path from the
\* query origin to the chosen destination: the first leg starts at a stop
\* equivalent to `from`, each following leg starts where the previous one
\* ended, and the last leg ends at the chosen destination, also when the
\* journey begins with a round-0 transfer or the destination is reached with
\* legNumber 0.
C35_ConnectedPath ==
    (pc = "done" /\ result.status = "route") =>
        LET ends == PathEnds(result.legs, ChosenDestination)
        IN  /\ Includes(equivalentStops(stopsIndex, query.from), ends.first)
            /\ \A i \in 1 .. Len(result.legs) - 1 :
                   result.legs[i + 1].from = result.legs[i].to
            /\ ends.last = ChosenDestination


(* ------------------------------------------------------------------ *)
(* C36: the order of the trips of an ingested route                     *)
(* ------------------------------------------------------------------ *)

\* C36: every Route produced by the GTFS ingester satisfies the trip-ordering
\* invariant that the binary search relies on: for every stop index i (not
\* only the first stop) and every trip t, trip t+1 does not depart from i
\* before trip t, for any set of input trips sharing the same stop sequence.
C36_IngestedTripsOrderedAtEveryStop ==
    call.op = "findEarliestTrip" => MonotoneDepartures(call.args.route)


(* ------------------------------------------------------------------ *)
(* C37: the stop indices of a registered continuation                   *)
(* ------------------------------------------------------------------ *)

\* The occurrence pairs of the call whose to-departure is strictly after the
\* from-arrival.
ValidPairs(a) ==
    {p \in Range(stopRouteIndices(a.fromRoute, a.fromStop)) \X Range(stopRouteIndices(a.toRoute, a.toStop)) :
        departureFrom(a.toRoute, p[2], 0) > arrivalAt(a.fromRoute, p[1], 0)}

\* The wait of an occurrence pair.
TimeDifference(a, p) ==
    departureFrom(a.toRoute, p[2], 0) - arrivalAt(a.fromRoute, p[1], 0)

\* Both stops are active, both trips are in the mapping and both routes in
\* the timetable.
Registrable(a) ==
    /\ a.fromStop \in a.activeStopIds
    /\ a.toStop \in a.activeStopIds
    /\ a.tripsMapping.trip1 = [routeId |-> 0, tripRouteIndex |-> 0]
    /\ a.tripsMapping.trip2 = [routeId |-> 1, tripRouteIndex |-> 0]

\* The map that holds the one continuation registered for the pair.
RegisteredAt(p) ==
    <<[key |-> encode(p[1], 0, 0),
       value |-> <<[stopIndex |-> p[2], routeId |-> 1, tripIndex |-> 0]>>]>>

\* C37: when building trip continuations, for from/to stops that occur
\* several times on their routes the registered pair (fromStopIndex,
\* toStopIndex) minimises the departure of the to-trip at toStopIndex minus
\* the arrival of the from-trip at fromStopIndex among all occurrence pairs
\* whose to-departure is strictly after the from-arrival; no continuation is
\* registered when no such pair exists, when either stop is inactive, or when
\* a trip or route is unknown.
C37_ClosestOccurrencePair ==
    ReturnedBy("buildTripTransfers") =>
        LET a == call.args
            valid == ValidPairs(a)
        IN  IF ~Registrable(a) \/ valid = {} THEN call.returned = <<>>
            ELSE \E p \in valid :
                     /\ \A q \in valid : TimeDifference(a, p) <= TimeDifference(a, q)
                     /\ call.returned = RegisteredAt(p)

\* A continuation has been registered between stops that both occur twice,
\* at a pair that is not the first one with a later departure.
C37_Witness ==
    /\ ReturnedBy("buildTripTransfers")
    /\ Len(stopRouteIndices(call.args.fromRoute, call.args.fromStop)) = 2
    /\ Len(stopRouteIndices(call.args.toRoute, call.args.toStop)) = 2
    /\ call.returned # <<>>
    /\ \E p \in ValidPairs(call.args) :
           /\ call.returned # RegisteredAt(p)
           /\ p[1] = 0

============================================================================
